---- MODULE Spec2Model ----
(***************************************************************************)
(* Verification model of the audit_report sales bot: the reason-code      *)
(* registry, the header-driven entry flow (SalesEntryFlow), the           *)
(* customer-list flow (CustomersCommand), the report commands of          *)
(* TelegrafBotService, the event log with its case aggregation pipelines  *)
(* and message ingestion (handleMessage), the free-text parser with the   *)
(* model translator, and the header form parser.                          *)
(*                                                                         *)
(* Message texts are sequences of characters (one-character strings).     *)
(* Khmer label text is written with one token per word ("kh_..."): the    *)
(* code only ever compares labels for equality.                            *)
(* A nullable value is an option: <<>> is null, <<x>> is the value x.      *)
(***************************************************************************)
EXTENDS Integers, Sequences, FiniteSets, TLC

None == <<>>
Some(x) == <<x>>

(***************************************************************************)
(* Characters and the string primitives the code uses.                     *)
(***************************************************************************)
LowerLetters == <<"a","b","c","d","e","f","g","h","i","j","k","l","m",
                  "n","o","p","q","r","s","t","u","v","w","x","y","z">>
UpperLetters == <<"A","B","C","D","E","F","G","H","I","J","K","L","M",
                  "N","O","P","Q","R","S","T","U","V","W","X","Y","Z">>
Digits == {"0","1","2","3","4","5","6","7","8","9"}
WhiteSpace == {" ", "\n", "\t", "\r"}

\* String.prototype.toUpperCase on one character.
ToUpperChar(ch) ==
  IF \E i \in 1..26 : LowerLetters[i] = ch
  THEN UpperLetters[CHOOSE i \in 1..26 : LowerLetters[i] = ch]
  ELSE ch

\* String.prototype.toLowerCase on one character.
ToLowerChar(ch) ==
  IF \E i \in 1..26 : UpperLetters[i] = ch
  THEN LowerLetters[CHOOSE i \in 1..26 : UpperLetters[i] = ch]
  ELSE ch

ToLowerCase(s) == [i \in 1..Len(s) |-> ToLowerChar(s[i])]

RECURSIVE TrimStart(_)
TrimStart(s) ==
  IF s = <<>> THEN <<>>
  ELSE IF Head(s) \in WhiteSpace THEN TrimStart(Tail(s)) ELSE s

RECURSIVE TrimEnd(_)
TrimEnd(s) ==
  IF s = <<>> THEN <<>>
  ELSE IF s[Len(s)] \in WhiteSpace THEN TrimEnd(SubSeq(s, 1, Len(s) - 1)) ELSE s

\* String.prototype.trim
Trim(s) == TrimEnd(TrimStart(s))

\* String.prototype.startsWith
StartsWith(s, p) == Len(s) >= Len(p) /\ SubSeq(s, 1, Len(p)) = p

(***************************************************************************)
(* Reason registry (constants/reason-codes.ts).                            *)
(***************************************************************************)
REASON_CODES == <<
  [code |-> "A", label |-> <<"kh_thlai", "kh_pek">>],
  [code |-> "B", label |-> <<"kh_titang", "kh_min", "kh_trov">>],
  [code |-> "C", label |-> <<"kh_min", "kh_men", "kh_neak", "kh_samrach">>],
  [code |-> "D", label |-> <<"kh_kmean", "kh_chamnap", "kh_arom">>],
  [code |-> "E", label |-> <<"kh_trovkar", "kh_kamchey", "kh_chraen">>],
  [code |-> "F", label |-> <<"kh_chompeak", "kh_ke", "kh_chraen">>],
  [code |-> "G", label |-> <<"kh_khoch", " ", "C", "B", "C">>],
  [code |-> "H", label |-> <<"kh_dey", "kh_ry", "kh_pteah", "kh_toch", "kh_pek">>],
  [code |-> "I", label |-> <<"kh_cham", "kh_rok", "kh_thngai", "kh_tomne", "kh_mok", "kh_meul">>],
  [code |-> "J", label |-> <<"kh_phseng", "kh_phseng">>] >>

ReasonCode == {REASON_CODES[i].code : i \in 1..Len(REASON_CODES)}

NoMatch == "null"

REASON_CODE_LABELS == [c \in ReasonCode |->
  REASON_CODES[CHOOSE i \in 1..Len(REASON_CODES) : REASON_CODES[i].code = c].label]

\* `${item.code} - ${item.label}`
FullLabel(item) == <<item.code, " ", "-", " ">> \o item.label

\* The prompt body of buildReasonPrompt: one "CODE - label" line per entry.
buildReasonPrompt == [i \in 1..Len(REASON_CODES) |-> FullLabel(REASON_CODES[i])]

\* /^[A-J]$/i on the trimmed reply.
LetterMatch(trimmed) ==
  /\ Len(trimmed) = 1
  /\ \E i \in 1..10 : UpperLetters[i] = ToUpperChar(trimmed[1])

RECURSIVE ScanLabels(_, _)
ScanLabels(trimmed, i) ==
  IF i > Len(REASON_CODES) THEN NoMatch
  ELSE IF trimmed = FullLabel(REASON_CODES[i]) THEN REASON_CODES[i].code
  ELSE ScanLabels(trimmed, i + 1)

\* parseReasonCode with the letter pattern left unanchored (/^[A-J]/i).
parseReasonCode_unanchored(input) ==
  LET trimmed == Trim(input) IN
  IF trimmed = <<>> THEN NoMatch
  ELSE IF \E i \in 1..10 : UpperLetters[i] = ToUpperChar(trimmed[1])
       THEN ToUpperChar(trimmed[1])
       ELSE ScanLabels(trimmed, 1)

parseReasonCode(input) ==
  LET trimmed == Trim(input) IN
  IF trimmed = <<>> THEN NoMatch
  ELSE IF LetterMatch(trimmed) THEN ToUpperChar(trimmed[1])
  ELSE ScanLabels(trimmed, 1)

(***************************************************************************)
(* More string primitives: split, digit patterns, Number().                *)
(***************************************************************************)
HasSep(s, seps) == \E i \in 1..Len(s) : s[i] \in seps
FirstSep(s, seps) == CHOOSE i \in 1..Len(s) :
                       /\ s[i] \in seps
                       /\ \A j \in 1..(i - 1) : s[j] \notin seps

\* String.prototype.split on a one-character separator: every segment,
\* empty ones included.
RECURSIVE SplitOn(_, _)
SplitOn(s, seps) ==
  IF ~HasSep(s, seps) THEN <<s>>
  ELSE LET i == FirstSep(s, seps) IN
       <<SubSeq(s, 1, i - 1)>> \o SplitOn(SubSeq(s, i + 1, Len(s)), seps)

RECURSIVE DropEmpty(_)
DropEmpty(segs) ==
  IF segs = <<>> THEN <<>>
  ELSE IF Head(segs) = <<>> THEN DropEmpty(Tail(segs))
  ELSE <<Head(segs)>> \o DropEmpty(Tail(segs))

\* message.split(/\r?\n/).map(line => line.trim()).filter(Boolean)
HeaderLines(message) ==
  LET raw == SplitOn(message, {"\n"}) IN
  DropEmpty([i \in 1..Len(raw) |-> Trim(raw[i])])

\* input.trim().split(/\s+/)
SplitWhitespace(input) ==
  LET t == Trim(input) IN
  IF t = <<>> THEN << <<>> >> ELSE DropEmpty(SplitOn(t, WhiteSpace))

AllDigits(s) == \A i \in 1..Len(s) : s[i] \in Digits

DigitValue(ch) == CHOOSE n \in 0..9 :
  <<"0","1","2","3","4","5","6","7","8","9">>[n + 1] = ch

RECURSIVE DecimalValue(_)
DecimalValue(s) ==
  IF s = <<>> THEN 0
  ELSE 10 * DecimalValue(SubSeq(s, 1, Len(s) - 1)) + DigitValue(s[Len(s)])

\* /^\d{4}-\d{2}-\d{2}$/
IsDatePattern(s) ==
  /\ Len(s) = 10
  /\ s[5] = "-" /\ s[8] = "-"
  /\ AllDigits(SubSeq(s, 1, 4)) /\ AllDigits(SubSeq(s, 6, 7)) /\ AllDigits(SubSeq(s, 9, 10))

\* /^\d{2}:\d{2}$/
IsTimePattern(s) ==
  /\ Len(s) = 5
  /\ s[3] = ":"
  /\ AllDigits(SubSeq(s, 1, 2)) /\ AllDigits(SubSeq(s, 4, 5))

\* /^\d{4}-\d{2}$/
IsMonthPattern(s) ==
  /\ Len(s) = 7
  /\ s[5] = "-"
  /\ AllDigits(SubSeq(s, 1, 4)) /\ AllDigits(SubSeq(s, 6, 7))

\* Number(text) followed by Number.isFinite and Math.trunc, for decimal
\* literals: optional sign, digits, optional fraction.  The result is
\* <<>> when the text is not such a literal (NaN), else <<trunc(value)>>.
\* Number("") and Number of blanks is 0.
NumberTrunc(text) ==
  LET t == Trim(text)
      signed == t # <<>> /\ t[1] \in {"+", "-"}
      body == IF signed THEN Tail(t) ELSE t
      parts == SplitOn(body, {"."})
      intPart == parts[1]
      fracPart == IF Len(parts) = 2 THEN parts[2] ELSE <<>>
      wellFormed == /\ Len(parts) <= 2
                    /\ AllDigits(intPart) /\ AllDigits(fracPart)
                    /\ intPart \o fracPart # <<>>
      magnitude == DecimalValue(intPart)
  IN IF t = <<>> THEN Some(0)
     ELSE IF ~wellFormed THEN None
     ELSE IF signed /\ t[1] = "-" THEN Some(0 - magnitude)
     ELSE Some(magnitude)

Min(a, b) == IF a < b THEN a ELSE b
Max(a, b) == IF a > b THEN a ELSE b

(***************************************************************************)
(* Header form parser (HeaderFormParser).                                   *)
(***************************************************************************)
HDR == <<"H", "D", "R">>
HeaderKeys == <<"date", "name", "phone", "page", "follower">>
K_DATE == <<"D","A","T","E">>
K_NAME == <<"N","A","M","E">>
K_PHONE == <<"P","H","O","N","E">>
K_PAGE == <<"P","A","G","E">>
K_FOLLOWER == <<"F","O","L","L","O","W","E","R">>

\* allowedKeys, as the field of HeaderFormData each upper-case key names.
FieldOfKey(key) ==
  IF key = K_DATE THEN "date"
  ELSE IF key = K_NAME THEN "name"
  ELSE IF key = K_PHONE THEN "phone"
  ELSE IF key = K_PAGE THEN "page"
  ELSE IF key = K_FOLLOWER THEN "follower"
  ELSE "unknown"

EmptyHeaderData == [k \in {"date", "name", "phone", "page", "follower"} |-> None]

Invalid(err) == [valid |-> FALSE, error |-> err, data |-> None, model |-> None]
Valid(d, m) == [valid |-> TRUE, error |-> "", data |-> Some(d), model |-> m]

IsUpperLetter(ch) == \E i \in 1..26 : UpperLetters[i] = ch

RECURSIVE UpperPrefixLen(_)
UpperPrefixLen(s) ==
  IF s = <<>> \/ ~IsUpperLetter(Head(s)) THEN 0 ELSE 1 + UpperPrefixLen(Tail(s))

\* line.match(/^([A-Z]+)\s*:\s*(.+)$/): <<>> when there is no match, else
\* <<[key, value]>> with value = match[2].
MatchHeaderLine(line) ==
  LET n == UpperPrefixLen(line)
      afterKey == TrimStart(SubSeq(line, n + 1, Len(line)))
      afterColon == IF afterKey # <<>> /\ Head(afterKey) = ":"
                    THEN TrimStart(Tail(afterKey)) ELSE <<>>
  IN IF n = 0 \/ afterKey = <<>> \/ Head(afterKey) # ":" \/ afterColon = <<>>
     THEN None
     ELSE Some([key |-> SubSeq(line, 1, n), value |-> afterColon])

\* validateHeaderData without the required-field test.
validateHeaderData_noRequired(data) ==
  IF data.date # None /\ ~IsDatePattern(data.date[1]) THEN Invalid("bad_date")
  ELSE Valid([k \in {"date", "name", "phone", "page", "follower"} |->
                IF data[k] = None THEN <<>> ELSE Trim(data[k][1])], None)

\* validateHeaderData: every required field present and non-blank, the
\* date an ISO calendar-date pattern; every value trimmed on return.
validateHeaderData(data) ==
  LET missing == {i \in 1..5 : \/ data[HeaderKeys[i]] = None
                               \/ Trim(data[HeaderKeys[i]][1]) = <<>>}
  IN IF missing # {} THEN Invalid("missing_field")
     ELSE IF ~IsDatePattern(data.date[1]) THEN Invalid("bad_date")
     ELSE Valid([k \in {"date", "name", "phone", "page", "follower"} |-> Trim(data[k][1])], None)

\* The loop of parseLocally over lines.slice(1).
RECURSIVE ParseHeaderFields(_, _)
ParseHeaderFields(lines, data) ==
  IF lines = <<>> THEN validateHeaderData(data)
  ELSE LET m == MatchHeaderLine(Head(lines)) IN
       IF m = None THEN Invalid("bad_line")
       ELSE LET field == FieldOfKey(m[1].key)
                value == Trim(m[1].value)
            IN IF field = "unknown" THEN Invalid("unknown_field")
               ELSE IF value = <<>> THEN Invalid("missing_value")
               ELSE IF data[field] # None THEN Invalid("duplicate_field")
               ELSE ParseHeaderFields(Tail(lines), [data EXCEPT ![field] = Some(value)])

parseLocally(message) ==
  LET lines == HeaderLines(message) IN
  IF lines = <<>> \/ lines[1] # HDR THEN Invalid("no_hdr")
  ELSE ParseHeaderFields(Tail(lines), EmptyHeaderData)

looksLikeHeader(message) ==
  LET lines == HeaderLines(message) IN lines # <<>> /\ lines[1] = HDR

\* HeaderFormParser.parse.  hasKey: an API key is configured.  ai: what
\* callModel returned: <<>> (null), or <<[valid, data]>> with data a
\* partial header record.
parseHeader(message, hasKey, ai) ==
  LET trimmed == Trim(message) IN
  IF ~looksLikeHeader(trimmed) THEN Invalid("no_hdr")
  ELSE IF ~hasKey THEN parseLocally(trimmed)
  ELSE LET validated == IF ai # None /\ ai[1].valid
                        THEN validateHeaderData(ai[1].data) ELSE Invalid("ai")
           fallback == parseLocally(trimmed)
       IN IF validated.valid THEN Valid(validated.data[1], Some("gpt"))
          ELSE IF fallback.valid THEN fallback
          ELSE Invalid(IF ai # None /\ ~ai[1].valid THEN "ai_error" ELSE fallback.error)

(***************************************************************************)
(* Bounds, identities and the clock.                                       *)
(***************************************************************************)
MaxTicks == 2
MaxEvents == 1
MaxCommits == 2
StartTime == 1000000

Users == {1}
Chats == {10, 20}
MsgIds == {7}

ttlMs == 5 * 60 * 1000
cooldownMs == 2 * 60 * 1000
customersTimeoutMs == 5 * 60 * 1000
reportCooldownMs == 5 * 60 * 1000
rangeTimeoutMs == 5 * 60 * 1000

\* The code base holds four builds of the bot: the header entry flow, the
\* bot with /customers, the bot with /report and /follow and a range
\* prompt, and the bot with the plain /report command.
Builds == {"entry", "customers", "range", "basic"}

\* How far the clock may move between two updates.
TimeSteps(b) ==
  IF b = "entry" THEN {1, ttlMs}
  ELSE IF b = "customers" THEN {1, cooldownMs - 1, customersTimeoutMs}
  ELSE {1, reportCooldownMs - 1, rangeTimeoutMs}

VARIABLES build, apiKey, now, ticks,
          pendingEntries, events,
          pendingCustomersRequest, lastRequestAt,
          pendingReportRange, lastReportAt,
          last

flowVars == <<build, apiKey, now, ticks, pendingEntries, events,
              pendingCustomersRequest, lastRequestAt,
              pendingReportRange, lastReportAt, last>>

\* The reply handed to parseReasonCode and what it returned.
VARIABLES rcInput, rcResult

reasonVars == <<rcInput, rcResult>>

\* The query the repository answered last and the result it returned
\* (<<>> when the operation handled last was not a query).
VARIABLES logQuery, cases

caseVars == <<logQuery, cases>>

\* The input of one MessageParser.parseMessage call (text, configured
\* model) and what the call did: its result and the requests it made.
VARIABLES pmInput, pmResult

parseVars == <<pmInput, pmResult>>

\* The input of one HeaderFormParser.parse call (the block's lines, the
\* configured model) and what the call did.
VARIABLES hfInput, hfResult

headerVars == <<hfInput, hfResult>>

vars == <<flowVars, reasonVars, caseVars, parseVars, headerVars>>

\* Everything but the state of the conversational flows.
nonFlowVars == <<reasonVars, caseVars, parseVars, headerVars>>

Reply(kind) == [kind |-> kind, arg |-> 0]
ReplyArg(kind, arg) == [kind |-> kind, arg |-> arg]

\* What the handling of one update did: the handler, the replies sent, the
\* audit entries written, the lookups run, whether an exception left the handler, the handler's return value and whether the
\* text went on to MessageHandlers.handleMessage, and, when the handler
\* dropped a pending state as stale, which half of the test held ("chat",
\* "expired", "both"; "no" otherwise).  The audit collection is
\* write-only for these handlers, so only the entries of the current
\* update are kept.  Replies are taken to be delivered; repository calls
\* may throw.
Outcome(op, replies, audits, lookups, threw, ret, fwd, stale) ==
  [op |-> op, replies |-> replies, audits |-> audits, lookups |-> lookups,
   threw |-> threw, ret |-> ret, forwarded |-> fwd, stale |-> stale]

NoOutcome == Outcome("none", <<>>, <<>>, <<>>, FALSE, "void", FALSE, "no")

(***************************************************************************)
(* Message texts.                                                           *)
(***************************************************************************)
NL == <<"\n">>
HeaderLine(key, value) == key \o <<":", " ">> \o value
V_date == <<"2","0","2","5","-","0","1","-","0","5">>
V_name == <<"B","o">>
V_phone == <<"0","1","1">>
V_page == <<"F","B">>
V_follower == <<"S","r","e","y">>

H_valid ==
  HDR \o NL \o HeaderLine(K_DATE, V_date) \o NL \o HeaderLine(K_NAME, V_name) \o NL
      \o HeaderLine(K_PHONE, V_phone) \o NL \o HeaderLine(K_PAGE, V_page) \o NL
      \o HeaderLine(K_FOLLOWER, V_follower)
H_missing ==
  HDR \o NL \o HeaderLine(K_DATE, V_date) \o NL \o HeaderLine(K_NAME, V_name) \o NL
      \o HeaderLine(K_PHONE, V_phone) \o NL \o HeaderLine(K_PAGE, V_page)
T_hello == <<"h","e","l","l","o">>
T_not_sure == <<"n","o","t"," ","s","u","r","e">>
T_price == <<"p","r","i","c","e"," ","t","o","o"," ","h","i","g","h">>
T_call_back == <<" ","c","a","l","l"," ","b","a","c","k">>
T_dash == <<"-">>
T_cmd_report == <<"/","r","e","p","o","r","t">>
T_cmd_follow == <<"/","f","o","l","l","o","w">>
T_cmd_customers == <<"/","c","u","s","t","o","m","e","r","s">>
T_cmd_foo == <<"/","f","o","o">>
T_srey == <<"S","r","e","y"," ">>
T_current == <<"C","u","r","r","e","n","t">>
T_current_lower == <<"c","u","r","r","e","n","t"," ">>
T_month == <<"2","0","2","5","-","0","1">>
T_jan == <<"J","a","n">>
T_7 == <<"7">>
T_soon == <<"s","o","o","n">>
T_day1 == <<"2","0","2","5","-","1","2","-","1","0">>
T_day2 == <<"2","0","2","5","-","1","2","-","1","8">>
T_range == T_day2 \o <<" ">> \o T_day1
T_bad_time == T_day2 \o <<"T","2","5",":","0","0">>
T_date_soon == T_day2 \o <<" ">> \o T_soon
T_three_days == T_day2 \o <<" ">> \o T_day1 \o <<" ">> \o T_day1
T_report_frac == T_cmd_report \o <<" ", "0", ".", "9">>
T_follow_neg == T_cmd_follow \o <<" ", "-", "3">>
T_45_9 == <<"4", "5", ".", "9">>
T_0_5 == <<"0", ".", "5">>
T_report_7 == T_cmd_report \o <<" ", "7">>
T_report_abc == T_cmd_report \o <<" ", "a", "b", "c">>
T_follow_40 == T_cmd_follow \o <<" ", "4", "0">>

AiData == [date |-> Some(V_date), name |-> Some(<<"B","O"," ">>), phone |-> Some(V_phone),
           page |-> Some(V_page), follower |-> Some(V_follower)]
AiReplies ==
  { None,
    Some([valid |-> TRUE, data |-> AiData]),
    Some([valid |-> TRUE, data |-> [AiData EXCEPT !.phone = None]]) }

\* The texts sampled for the entry flow: what a user sends when idle, at
\* the reason prompt and at the note prompt.
HeaderTexts == { H_valid, H_missing, T_hello, T_cmd_report }
T_two_codes == <<"A", " ", "B">>
ReasonReplies == { <<"B">>, <<"j", " ">>, T_not_sure, T_two_codes }
NoteReplies == { T_dash, T_call_back }
EntryReplies(p) ==
  IF p = None THEN { T_dash }
  ELSE IF p[1].step = "awaiting_reason" THEN ReasonReplies
  ELSE NoteReplies

CustomersTexts == { T_cmd_customers, T_cmd_foo, T_srey, T_current, T_current_lower,
                    T_month, T_jan }

RangeTexts == { T_cmd_report, T_report_7, T_report_abc, T_cmd_follow, T_follow_40,
                T_cmd_foo, T_7, T_range, T_bad_time, T_soon, T_date_soon, T_three_days,
                T_report_frac, T_follow_neg, T_45_9, T_0_5 }

BasicTexts == { T_cmd_report, T_report_7, T_report_abc, T_hello }

\* HeaderFormParser.parse, tabulated over the sampled texts.
HeaderResults ==
  [t \in HeaderTexts |-> [k \in BOOLEAN |-> [a \in AiReplies |-> parseHeader(t, k, a)]]]

\* text.trim().startsWith('/') and looksLikeHeader, tabulated likewise.
HeaderSlash == [t \in HeaderTexts |-> StartsWith(Trim(t), <<"/">>)]
HeaderLooks == [t \in HeaderTexts |-> looksLikeHeader(Trim(t))]

\* parseReasonCode and normalizeNote, tabulated over the sampled replies.
EntryTexts == ReasonReplies \cup NoteReplies
ReasonParses == [t \in EntryTexts |-> parseReasonCode(t)]

\* What the repository answers to a lookup.
LookupResults == {"empty", "some", "throws"}

\* Telegraf routes a text to bot.command(name) when it opens with the
\* command token; the handler does not pass the update on.
IsCommand(text, name) == SplitOn(text, WhiteSpace)[1] = <<"/">> \o name

N_report == <<"r","e","p","o","r","t">>
N_follow == <<"f","o","l","l","o","w">>
N_customers == <<"c","u","s","t","o","m","e","r","s">>

(***************************************************************************)
(* Entry flow (SalesEntryFlow).                                             *)
(***************************************************************************)
\* normalizeNote without the skip words: the reply is stored as sent.
normalizeNote_raw(text) ==
  IF Trim(text) = <<>> THEN None ELSE Some(Trim(text))

\* normalizeNote
normalizeNote(text) ==
  LET trimmed == Trim(text)
      normalized == ToLowerCase(trimmed)
  IN IF trimmed = <<>> THEN None
     ELSE IF normalized \in {<<"-">>, <<"s","k","i","p">>, <<"n","o","n","e">>, <<"n","/","a">>}
     THEN None
     ELSE Some(trimmed)

NoteNorms == [t \in EntryTexts |-> normalizeNote(t)]

\* saveEntry with the reason left out of the document.
leadEvent_noReason(pending, note) ==
  [date |-> pending.header.date,
   customer |-> [name |-> pending.header.name, phone |-> pending.header.phone],
   page |-> pending.header.page,
   follower |-> pending.header.follower,
   status_text |-> None,
   reason_code |-> None,
   note |-> note,
   source |-> [telegram_msg_id |-> pending.sourceMessageId,
               model |-> IF pending.sourceModel = None THEN "header-form"
                         ELSE pending.sourceModel[1]],
   created_at |-> now]

\* The LeadEventDocument assembled by saveEntry.
leadEvent(pending, note) ==
  [date |-> pending.header.date,
   customer |-> [name |-> pending.header.name, phone |-> pending.header.phone],
   page |-> pending.header.page,
   follower |-> pending.header.follower,
   status_text |-> None,
   reason_code |-> pending.reasonCode,
   note |-> note,
   source |-> [telegram_msg_id |-> pending.sourceMessageId,
               model |-> IF pending.sourceModel = None THEN "header-form"
                         ELSE pending.sourceModel[1]],
   created_at |-> now]

\* pending.chatId !== chatId || pending.expiresAt < Date.now(): the test
\* each of the three flows makes before it reads a reply.
Stale_expiryOnly(pending, chatId) == pending.expiresAt < now

Stale_chatOnly(pending, chatId) == pending.chatId # chatId

Stale(pending, chatId) == pending.chatId # chatId \/ pending.expiresAt < now

\* Which half of that test holds.
StaleKind(pending, chatId) ==
  IF pending.chatId # chatId /\ pending.expiresAt < now THEN "both"
  ELSE IF pending.chatId # chatId THEN "chat"
  ELSE IF pending.expiresAt < now THEN "expired"
  ELSE "no"

\* A step change that also renews the expiry.
StepTo_renewed(pending, step) ==
  [pending EXCEPT !.step = step, !.expiresAt = now + ttlMs]

\* pending.step = step; this.pendingEntries.set(userId, pending), and the
\* same of the customer-list flow: the other fields stay.
StepTo(pending, step) == [pending EXCEPT !.step = step]

EntryFrame == UNCHANGED <<build, apiKey, now, ticks, pendingCustomersRequest,
                          lastRequestAt, pendingReportRange, lastReportAt>>

\* tryStartFromHeader.  failAt: which repository call throws (1 the
\* header_received audit write, 2 the header_parsed one), 0 for none.
tryStartFromHeader(u, c, text, mid, ai, failAt) ==
  /\ build = "entry"
  /\ EntryFrame
  /\ UNCHANGED events
  /\ LET Out(replies, audits, threw, ret) ==
           Outcome("tryStartFromHeader", replies, audits, <<>>, threw, ret, FALSE, "no")
         headerResult == HeaderResults[text][apiKey][ai]
     IN
     IF HeaderSlash[text]
     THEN /\ UNCHANGED pendingEntries
          /\ last' = Out(<<>>, <<>>, FALSE, "false")
     ELSE IF failAt = 1
     THEN /\ UNCHANGED pendingEntries
          /\ last' = Out(<<>>, <<>>, TRUE, "threw")
     ELSE IF failAt = 2
     THEN /\ UNCHANGED pendingEntries
          /\ last' = Out(<<>>, <<"header_received">>, TRUE, "threw")
     ELSE IF ~headerResult.valid \/ headerResult.data = None
     THEN /\ UNCHANGED pendingEntries
          /\ last' = Out(<<Reply("help")>>, <<"header_received", "header_parsed">>, FALSE, "true")
     ELSE /\ pendingEntries' = [pendingEntries EXCEPT ![u] = Some(
               [chatId |-> c, userId |-> u, header |-> headerResult.data[1],
                step |-> "awaiting_reason", reasonCode |-> None,
                expiresAt |-> now + ttlMs, sourceMessageId |-> mid,
                sourceModel |-> headerResult.model])]
          /\ last' = Out(<<Reply("menu")>>, <<"header_received", "header_parsed">>, FALSE, "true")

\* handlePending.  failAt: which repository call of the branch taken
\* throws, 0 for none.
handlePending(u, c, text, mid, failAt) ==
  /\ build = "entry"
  /\ EntryFrame
  /\ LET Out(replies, audits, threw, ret) ==
           Outcome("handlePending", replies, audits, <<>>, threw, ret, FALSE, "no")
     IN
     IF pendingEntries[u] = None
     THEN /\ UNCHANGED <<pendingEntries, events>>
          /\ last' = Out(<<>>, <<>>, FALSE, "false")
     ELSE LET pending == pendingEntries[u][1] IN
       IF Stale(pending, c)
       THEN /\ pendingEntries' = [pendingEntries EXCEPT ![u] = None]
            /\ UNCHANGED events
            /\ last' = Outcome("handlePending", <<Reply("expired")>>, <<>>, <<>>, FALSE,
                                "true", FALSE, StaleKind(pending, c))
       ELSE IF pending.step = "awaiting_reason"
       THEN LET reasonCode == ReasonParses[text] IN
            IF reasonCode = NoMatch
            THEN /\ UNCHANGED <<pendingEntries, events>>
                 /\ last' = Out(<<Reply("choose_one"), Reply("menu")>>, <<>>, FALSE, "true")
            ELSE /\ pendingEntries' = [pendingEntries EXCEPT ![u] = Some(
                        StepTo([pending EXCEPT !.reasonCode = Some(reasonCode)], "awaiting_note"))]
                 /\ UNCHANGED events
                 /\ last' = IF failAt = 1 THEN Out(<<>>, <<>>, TRUE, "threw")
                            ELSE Out(<<Reply("note_prompt")>>, <<"reason_selected">>, FALSE, "true")
       ELSE IF pending.reasonCode = None
       THEN /\ pendingEntries' = [pendingEntries EXCEPT ![u] = Some(
                   StepTo(pending, "awaiting_reason"))]
            /\ UNCHANGED events
            /\ last' = Out(<<Reply("choose_one"), Reply("menu")>>, <<>>, FALSE, "true")
       ELSE LET note == NoteNorms[text] IN
            /\ Len(events) < MaxCommits
            /\ IF failAt = 1
               THEN /\ UNCHANGED <<pendingEntries, events>>
                    /\ last' = Out(<<>>, <<>>, TRUE, "threw")
               ELSE IF failAt = 2
               THEN /\ events' = Append(events, leadEvent(pending, note))
                    /\ UNCHANGED pendingEntries
                    /\ last' = Out(<<>>, <<>>, TRUE, "threw")
               ELSE /\ events' = Append(events, leadEvent(pending, note))
                    /\ pendingEntries' = [pendingEntries EXCEPT ![u] = None]
                    /\ last' = Out(<<Reply("saved")>>, <<"lead_events_saved">>, FALSE, "true")

(***************************************************************************)
(* Customer-list flow (CustomersCommand) and the bot that wires it.        *)
(***************************************************************************)
\* Math.ceil(ms / 1000) for ms > 0.
CeilSeconds(ms) == (ms + 999) \div 1000

\* The clock stays within the calendar month of StartTime.
CurrentMonth == <<"1","9","7","0","-","0","1">>

\* parseMonthInput without the test of the pattern.
parseMonthInput_anyText(input) ==
  IF ToLowerCase(input) = <<"c","u","r","r","e","n","t">> THEN Some(CurrentMonth)
  ELSE Some(input)

\* parseMonthInput
parseMonthInput(input) ==
  IF ToLowerCase(input) = <<"c","u","r","r","e","n","t">> THEN Some(CurrentMonth)
  ELSE IF IsMonthPattern(input) THEN Some(input)
  ELSE None

Lookup(kind, days, a, b) == [kind |-> kind, days |-> days, a |-> a, b |-> b]

\* buildCustomersReport with an empty result treated as a failure.
buildCustomersReport_emptyThrows(lookup) ==
  IF lookup \in {"throws", "empty"} THEN None
  ELSE Some(Reply("customer_list"))

\* buildCustomersReport: the text of the list, the empty-result text when
\* the query matched nothing; <<>> when the query throws (logged and thrown
\* again).
buildCustomersReport(lookup) ==
  IF lookup = "throws" THEN None
  ELSE IF lookup = "empty" THEN Some(Reply("no_cases"))
  ELSE Some(Reply("customer_list"))

CustomersFrame == UNCHANGED <<build, apiKey, now, ticks, pendingEntries, events,
                              pendingReportRange, lastReportAt>>

\* bot.command('customers'): CustomersCommand.handleCommand.
customersCommand(u, c, text) ==
  /\ build = "customers"
  /\ IsCommand(text, N_customers)
  /\ CustomersFrame
  /\ LET Out(replies) == Outcome("customersCommand", replies, <<>>, <<>>, FALSE, "void", FALSE, "no")
     IN
     IF lastRequestAt[u] # None /\ now - lastRequestAt[u][1] < cooldownMs
     THEN /\ UNCHANGED <<pendingCustomersRequest, lastRequestAt>>
          /\ last' = Out(<<ReplyArg("wait", CeilSeconds(cooldownMs - (now - lastRequestAt[u][1])))>>)
     ELSE /\ pendingCustomersRequest' = [pendingCustomersRequest EXCEPT ![u] = Some(
               [chatId |-> c, expiresAt |-> now + customersTimeoutMs,
                step |-> "awaiting_follower", follower |-> None])]
          /\ UNCHANGED lastRequestAt
          /\ last' = Out(<<Reply("follower_prompt")>>)

\* bot.on('text') of the bot with /customers, CustomersCommand.handlePendingRequest
\* included.  lookup: what getCasesByFollowerAndMonth does when it is called.
customersText(u, c, text, lookup) ==
  /\ build = "customers"
  /\ ~IsCommand(text, N_customers)
  /\ CustomersFrame
  /\ LET Out(replies, lookups, ret, fwd) ==
           Outcome("customersText", replies, <<>>, lookups, FALSE, ret, fwd, "no")
     IN
     IF pendingCustomersRequest[u] = None
     THEN /\ UNCHANGED <<pendingCustomersRequest, lastRequestAt>>
          /\ last' = Out(<<>>, <<>>, "void", TRUE)
     ELSE LET pending == pendingCustomersRequest[u][1] IN
       IF StartsWith(text, <<"/">>)
       THEN /\ pendingCustomersRequest' = [pendingCustomersRequest EXCEPT ![u] = None]
            /\ UNCHANGED lastRequestAt
            /\ last' = Out(<<>>, <<>>, "void", TRUE)
       ELSE IF Stale(pending, c)
       THEN /\ pendingCustomersRequest' = [pendingCustomersRequest EXCEPT ![u] = None]
            /\ UNCHANGED lastRequestAt
            /\ last' = Outcome("customersText", <<>>, <<>>, <<>>, FALSE, "false", TRUE,
                                StaleKind(pending, c))
       ELSE IF pending.step = "awaiting_follower"
       THEN /\ pendingCustomersRequest' = [pendingCustomersRequest EXCEPT ![u] = Some(
                   StepTo([pending EXCEPT !.follower = Some(Trim(text))], "awaiting_month"))]
            /\ UNCHANGED lastRequestAt
            /\ last' = Out(<<Reply("month_prompt")>>, <<>>, "true", FALSE)
       ELSE LET month == parseMonthInput(Trim(text)) IN
            IF month = None
            THEN /\ UNCHANGED <<pendingCustomersRequest, lastRequestAt>>
                 /\ last' = Out(<<Reply("invalid_month")>>, <<>>, "true", FALSE)
            ELSE LET q == Lookup("customers", 0, pending.follower[1], month[1])
                     report == buildCustomersReport(lookup)
                 IN
                 IF report = None
                 THEN /\ pendingCustomersRequest' = [pendingCustomersRequest EXCEPT ![u] = None]
                      /\ UNCHANGED lastRequestAt
                      /\ last' = Out(<<Reply("failed")>>, <<q>>, "true", FALSE)
                 ELSE /\ pendingCustomersRequest' = [pendingCustomersRequest EXCEPT ![u] = None]
                      /\ lastRequestAt' = [lastRequestAt EXCEPT ![u] = Some(now)]
                      /\ last' = Out(<<report[1]>>, <<q>>, "true", FALSE)

(***************************************************************************)
(* The bot with /report, /follow and the range prompt.                     *)
(***************************************************************************)
canRequestReport_always(u) == TRUE

\* canRequestReport
canRequestReport(u) ==
  IF lastReportAt[u] = None THEN TRUE
  ELSE now - lastReportAt[u][1] >= reportCooldownMs

\* parseDaysArg without the upper and lower limit.
parseDaysArg_unclamped(arg) ==
  LET parsed == IF arg = None \/ arg[1] = <<>> THEN None ELSE NumberTrunc(arg[1]) IN
  IF parsed = None THEN 1
  ELSE parsed[1]

\* parseDaysArg.  arg: <<>> for undefined, else <<text>>.
parseDaysArg(arg) ==
  LET parsed == IF arg = None \/ arg[1] = <<>> THEN None ELSE NumberTrunc(arg[1]) IN
  IF parsed = None THEN 1
  ELSE Min(Max(parsed[1], 1), 30)

\* ctx.message.text.split(' ').slice(1)
CommandArgs(text) == Tail(SplitOn(text, {" "}))

\* isValidDate: the pattern, and a month and a day that new Date() takes.
isValidDate(dateStr) ==
  /\ IsDatePattern(dateStr)
  /\ DecimalValue(SubSeq(dateStr, 6, 7)) \in 1..12
  /\ DecimalValue(SubSeq(dateStr, 9, 10)) \in 1..31

\* /^\d{4}-\d{2}-\d{2}(?:[T ]\d{2}:\d{2})?$/ on one token, and the entry
\* the loop of parseRangeOrDays pushes for it: <<>> for none.
DateTimeEntry(token) ==
  IF IsDatePattern(token)
  THEN IF isValidDate(token) THEN <<[date |-> token, time |-> None]>> ELSE <<>>
  ELSE IF /\ Len(token) = 16
          /\ IsDatePattern(SubSeq(token, 1, 10))
          /\ token[11] = "T"
          /\ IsTimePattern(SubSeq(token, 12, 16))
  THEN IF isValidDate(SubSeq(token, 1, 10))
       THEN <<[date |-> SubSeq(token, 1, 10), time |-> Some(SubSeq(token, 12, 16))]>>
       ELSE <<>>
  ELSE <<>>

RECURSIVE DateTimeEntries(_)
DateTimeEntries(tokens) ==
  IF tokens = <<>> THEN <<>>
  ELSE DateTimeEntry(Head(tokens)) \o DateTimeEntries(Tail(tokens))

\* parseRangeOrDays: <<>> for null.
parseRangeOrDays(input) ==
  LET dateTimeEntries == DateTimeEntries(SplitWhitespace(input))
      num == NumberTrunc(input)
  IN IF Len(dateTimeEntries) >= 2
     THEN Some([type |-> "range", days |-> 0,
                start |-> dateTimeEntries[1].date, end |-> dateTimeEntries[2].date,
                startTime |-> dateTimeEntries[1].time, endTime |-> dateTimeEntries[2].time])
     ELSE IF Len(dateTimeEntries) = 1
     THEN Some([type |-> "range", days |-> 0,
                start |-> dateTimeEntries[1].date, end |-> dateTimeEntries[1].date,
                startTime |-> dateTimeEntries[1].time, endTime |-> dateTimeEntries[1].time])
     ELSE IF num # None
     THEN Some([type |-> "days", days |-> Min(Max(num[1], 1), 30),
                start |-> <<>>, end |-> <<>>, startTime |-> None, endTime |-> None])
     ELSE None

\* toZonedDateTime(date, time) is not null: the hour and minute ranges.
ZonedTimeOk(time) ==
  \/ time = None
  \/ /\ DecimalValue(SubSeq(time[1], 1, 2)) <= 23
     /\ DecimalValue(SubSeq(time[1], 4, 5)) <= 59

\* Lexicographic order of two YYYY-MM-DD strings (normalizedStart > normalizedEnd).
RECURSIVE DateAfter(_, _)
DateAfter(a, b) ==
  IF a = <<>> \/ b = <<>> THEN FALSE
  ELSE IF Head(a) = Head(b) THEN DateAfter(Tail(a), Tail(b))
  ELSE DigitValue(Head(a)) > DigitValue(Head(b))

\* buildReportRange / buildFollowReportRange: the reply, the lookup made
\* and whether the repository threw.  lookup: what
\* getSalesCasesByCreatedAtRange does when it is called.
buildReportRange(kind, startDate, endDate, daysHint, startTime, endTime, lookup) ==
  LET swap == DateAfter(startDate, endDate)
      normalizedStart == IF swap THEN endDate ELSE startDate
      normalizedEnd == IF swap THEN startDate ELSE endDate
      q == Lookup(kind, daysHint, normalizedStart, normalizedEnd)
  IN IF ~ZonedTimeOk(startTime) \/ ~ZonedTimeOk(endTime)
     THEN [reply |-> Reply("invalid_datetime"), lookups |-> <<>>, threw |-> FALSE]
     ELSE IF lookup = "throws"
     THEN [reply |-> Reply("none"), lookups |-> <<q>>, threw |-> TRUE]
     ELSE [reply |-> Reply(IF lookup = "empty" THEN "no_cases" ELSE "report"),
           lookups |-> <<q>>, threw |-> FALSE]

\* buildReport / buildFollowReport: the range ending today.
buildReport(kind, days, lookup) ==
  buildReportRange(kind, <<>>, <<>>, days, None, None, lookup)

FirstArg(text) ==
  LET args == CommandArgs(text) IN IF args = <<>> THEN None ELSE Some(args[1])

\* parseRangeOrDays, tabulated over the sampled texts.
RangeParses == [t \in RangeTexts |-> parseRangeOrDays(Trim(t))]

RangeFrame == UNCHANGED <<build, apiKey, now, ticks, pendingEntries, events,
                          pendingCustomersRequest, lastRequestAt>>

\* The body bot.command('report') and bot.command('follow') share.
queryCommand(kind, u, c, text, lookup) ==
  /\ build = "range"
  /\ RangeFrame
  /\ LET Out(replies, lookups) ==
           Outcome(kind, replies, <<>>, lookups, FALSE, "void", FALSE, "no")
         r == buildReport(kind, parseDaysArg(FirstArg(text)), lookup)
     IN
     IF ~canRequestReport(u)
     THEN /\ UNCHANGED <<pendingReportRange, lastReportAt>>
          /\ last' = Out(<<ReplyArg("wait", CeilSeconds(reportCooldownMs - (now - lastReportAt[u][1])))>>, <<>>)
     ELSE IF CommandArgs(text) = <<>>
     THEN /\ pendingReportRange' = [pendingReportRange EXCEPT ![u] = Some(
               [chatId |-> c, expiresAt |-> now + rangeTimeoutMs, type |-> kind])]
          /\ UNCHANGED lastReportAt
          /\ last' = Out(<<Reply("range_prompt")>>, <<>>)
     ELSE IF r.threw
     THEN /\ UNCHANGED <<pendingReportRange, lastReportAt>>
          /\ last' = Out(<<Reply("failed")>>, r.lookups)
     ELSE /\ UNCHANGED pendingReportRange
          /\ lastReportAt' = [lastReportAt EXCEPT ![u] = Some(now)]
          /\ last' = Out(<<r.reply>>, r.lookups)

reportCommand(u, c, text, lookup) ==
  IsCommand(text, N_report) /\ queryCommand("report", u, c, text, lookup)

followCommand(u, c, text, lookup) ==
  IsCommand(text, N_follow) /\ queryCommand("follow", u, c, text, lookup)

\* bot.on('text') of this bot: maybeHandlePendingRange, then handleMessage.
rangeText(u, c, text, lookup) ==
  /\ build = "range"
  /\ ~IsCommand(text, N_report) /\ ~IsCommand(text, N_follow)
  /\ RangeFrame
  /\ LET Out(replies, lookups, ret, fwd) ==
           Outcome("rangeText", replies, <<>>, lookups, FALSE, ret, fwd, "no")
     IN
     IF pendingReportRange[u] = None
     THEN /\ UNCHANGED <<pendingReportRange, lastReportAt>>
          /\ last' = Out(<<>>, <<>>, "false", TRUE)
     ELSE LET pending == pendingReportRange[u][1]
              parsed == RangeParses[text]
              r == IF parsed[1].type = "days"
                   THEN buildReport(pending.type, parsed[1].days, lookup)
                   ELSE buildReportRange(pending.type, parsed[1].start, parsed[1].end, 0,
                                         parsed[1].startTime, parsed[1].endTime, lookup)
          IN
       IF Stale(pending, c)
       THEN /\ pendingReportRange' = [pendingReportRange EXCEPT ![u] = None]
            /\ UNCHANGED lastReportAt
            /\ last' = Outcome("rangeText", <<>>, <<>>, <<>>, FALSE, "false", TRUE,
                                StaleKind(pending, c))
       ELSE IF StartsWith(Trim(text), <<"/">>)
       THEN /\ pendingReportRange' = [pendingReportRange EXCEPT ![u] = None]
            /\ UNCHANGED lastReportAt
            /\ last' = Out(<<>>, <<>>, "false", TRUE)
       ELSE IF parsed = None
       THEN /\ UNCHANGED <<pendingReportRange, lastReportAt>>
            /\ last' = Out(<<Reply("invalid_input")>>, <<>>, "true", FALSE)
       ELSE /\ pendingReportRange' = [pendingReportRange EXCEPT ![u] = None]
            /\ IF r.threw
               THEN /\ UNCHANGED lastReportAt
                    /\ last' = Out(<<Reply("failed")>>, r.lookups, "true", FALSE)
               ELSE /\ lastReportAt' = [lastReportAt EXCEPT ![u] = Some(now)]
                    /\ last' = Out(<<r.reply>>, r.lookups, "true", FALSE)

(***************************************************************************)
(* The bot with the plain /report command (src/bot/telegraf-bot.ts).       *)
(***************************************************************************)
basicReportCommand(u, c, text, lookup) ==
  /\ build = "basic"
  /\ IsCommand(text, N_report)
  /\ RangeFrame
  /\ UNCHANGED pendingReportRange
  /\ LET Out(replies, lookups) ==
           Outcome("basicReportCommand", replies, <<>>, lookups, FALSE, "void", FALSE, "no")
         r == buildReport("report", parseDaysArg(FirstArg(text)), lookup)
     IN
     IF ~canRequestReport(u)
     THEN /\ UNCHANGED lastReportAt
          /\ last' = Out(<<ReplyArg("wait", CeilSeconds(reportCooldownMs - (now - lastReportAt[u][1])))>>, <<>>)
     ELSE /\ lastReportAt' = [lastReportAt EXCEPT ![u] = Some(now)]
          /\ last' = Out(<<IF r.threw THEN Reply("failed") ELSE r.reply>>, r.lookups)

basicText(u, c, text) ==
  /\ build = "basic"
  /\ ~IsCommand(text, N_report)
  /\ RangeFrame
  /\ UNCHANGED <<pendingReportRange, lastReportAt>>
  /\ last' = Outcome("basicText", <<>>, <<>>, <<>>, FALSE, "void", TRUE, "no")

\* Time passes between two updates.
Tick ==
  /\ ticks < MaxTicks
  /\ \E d \in TimeSteps(build) : now' = now + d
  /\ ticks' = ticks + 1
  /\ UNCHANGED <<build, apiKey, pendingEntries, events, pendingCustomersRequest,
                 lastRequestAt, pendingReportRange, lastReportAt, last>>

FlowsIdle ==
  /\ now = StartTime
  /\ ticks = 0
  /\ pendingEntries = [u \in Users |-> None]
  /\ events = <<>>
  /\ pendingCustomersRequest = [u \in Users |-> None]
  /\ lastRequestAt = [u \in Users |-> None]
  /\ pendingReportRange = [u \in Users |-> None]
  /\ lastReportAt = [u \in Users |-> None]
  /\ last = NoOutcome

ReasonIdle == rcInput = <<>> /\ rcResult = "unset"
CasesIdle == logQuery = <<>> /\ cases = <<>>
ParseIdle == pmInput = <<>> /\ pmResult = <<>>
HeaderIdle == hfInput = <<>> /\ hfResult = <<>>

Init ==
  /\ build \in Builds
  /\ apiKey \in BOOLEAN
  /\ FlowsIdle
  /\ ReasonIdle /\ CasesIdle /\ ParseIdle /\ HeaderIdle

\* The texts each handler is routed, and the inputs that reach its code:
\* the model is called only for a text that looks like a header when a key
\* is configured, and a text opening with "/" makes no repository call.
CommandTexts(texts, name) == {t \in texts : IsCommand(t, name)}
CustomersCommandTexts == CommandTexts(CustomersTexts, N_customers)
CustomersOtherTexts == CustomersTexts \ CustomersCommandTexts
ReportTexts == CommandTexts(RangeTexts, N_report)
FollowTexts == CommandTexts(RangeTexts, N_follow)
RangeOtherTexts == RangeTexts \ (ReportTexts \cup FollowTexts)
BasicReportTexts == CommandTexts(BasicTexts, N_report)
BasicOtherTexts == BasicTexts \ BasicReportTexts
AiChoices(text) == IF apiKey /\ HeaderLooks[text] THEN AiReplies ELSE {None}
FailChoices(text) == IF HeaderSlash[text] THEN {0} ELSE 0..2

Next ==
  \/ Tick /\ UNCHANGED nonFlowVars
  \/ \E u \in Users, c \in Chats, text \in HeaderTexts, mid \in MsgIds :
     \E ai \in AiChoices(text), failAt \in FailChoices(text) :
       tryStartFromHeader(u, c, text, mid, ai, failAt) /\ UNCHANGED nonFlowVars
  \/ \E u \in Users, c \in Chats, mid \in MsgIds, failAt \in 0..2 :
     \E text \in EntryReplies(pendingEntries[u]) :
       /\ handlePending(u, c, text, mid, failAt)
       /\ Len(events') <= MaxEvents
       /\ UNCHANGED nonFlowVars
  \/ \E u \in Users, c \in Chats, text \in CustomersCommandTexts :
       customersCommand(u, c, text) /\ UNCHANGED nonFlowVars
  \/ \E u \in Users, c \in Chats, text \in CustomersOtherTexts, lookup \in LookupResults :
       customersText(u, c, text, lookup) /\ UNCHANGED nonFlowVars
  \/ \E u \in Users, c \in Chats, text \in ReportTexts, lookup \in LookupResults :
       reportCommand(u, c, text, lookup) /\ UNCHANGED nonFlowVars
  \/ \E u \in Users, c \in Chats, text \in FollowTexts, lookup \in LookupResults :
       followCommand(u, c, text, lookup) /\ UNCHANGED nonFlowVars
  \/ \E u \in Users, c \in Chats, text \in RangeOtherTexts, lookup \in LookupResults :
       rangeText(u, c, text, lookup) /\ UNCHANGED nonFlowVars
  \/ \E u \in Users, c \in Chats, text \in BasicReportTexts, lookup \in LookupResults :
       basicReportCommand(u, c, text, lookup) /\ UNCHANGED nonFlowVars
  \/ \E u \in Users, c \in Chats, text \in BasicOtherTexts :
       basicText(u, c, text) /\ UNCHANGED nonFlowVars

Spec == Init /\ [][Next]_vars

(***************************************************************************)
(* The entry flow alone, without an API key, with an event log of up to    *)
(* MaxCommits events.                                                      *)
(***************************************************************************)
InitCommit ==
  /\ build = "entry"
  /\ apiKey = FALSE
  /\ FlowsIdle
  /\ ReasonIdle /\ CasesIdle /\ ParseIdle /\ HeaderIdle

NextCommit ==
  \/ Tick /\ UNCHANGED nonFlowVars
  \/ \E u \in Users, c \in Chats, text \in HeaderTexts, mid \in MsgIds :
     \E ai \in AiChoices(text), failAt \in FailChoices(text) :
       tryStartFromHeader(u, c, text, mid, ai, failAt) /\ UNCHANGED nonFlowVars
  \/ \E u \in Users, c \in Chats, mid \in MsgIds, failAt \in 0..2 :
     \E text \in EntryReplies(pendingEntries[u]) :
       handlePending(u, c, text, mid, failAt) /\ UNCHANGED nonFlowVars

SpecCommit == InitCommit /\ [][NextCommit]_vars

(***************************************************************************)
(* Inputs for the reason parser.                                           *)
(***************************************************************************)
Codes == {"A","B","C","D","E","F","G","H","I","J"}

ReasonInputs ==
     {<<c>> : c \in Codes}
  \cup {<<ToLowerChar(c)>> : c \in Codes}
  \cup {<<" ", c, "\n">> : c \in Codes}
  \cup {FullLabel(REASON_CODES[i]) : i \in 1..10}
  \cup {<<REASON_CODES[i].code, " ", "-", " ">> \o REASON_CODES[j].label :
          i \in 1..10, j \in 1..10}
  \cup {<<ToLowerChar(REASON_CODES[i].code), " ", "-", " ">> \o REASON_CODES[i].label :
          i \in 1..10}
  \cup {<<REASON_CODES[i].code, "-">> \o REASON_CODES[i].label : i \in 1..10}
  \cup {REASON_CODES[i].label : i \in 1..10}
  \cup {<<c, " ", d>> : c \in Codes, d \in Codes}
  \cup {<<c, d>> : c \in {"A", "j"}, d \in {"B", "a"}}
  \cup {<<c, " ", "a", "n", "d", " ", d>> : c \in {"A", "J"}, d \in {"B"}}
  \cup {<<c>> : c \in {"K", "k", "Z", "1", "-", "/"}}
  \cup {<<>>, <<" ">>, <<" ", "\n">>, T_not_sure, T_price}

InitReason ==
  /\ rcInput \in ReasonInputs
  /\ rcResult = "unset"
  /\ build = "entry"
  /\ apiKey = FALSE
  /\ FlowsIdle
  /\ CasesIdle /\ ParseIdle /\ HeaderIdle

ApplyParseReasonCode ==
  /\ rcResult = "unset"
  /\ rcResult' = parseReasonCode(rcInput)
  /\ UNCHANGED rcInput
  /\ UNCHANGED <<flowVars, caseVars, parseVars, headerVars>>

NextReason == ApplyParseReasonCode

SpecReason == InitReason /\ [][NextReason]_vars

(***************************************************************************)
(* The event log (collection leads_events), the repository calls on it     *)
(* and the case aggregation pipelines (database/aggregations.ts).  In this *)
(* part a string value is one TLA+ string: the store only compares strings *)
(* for equality and for order.                                              *)
(***************************************************************************)
MaxLog == 3

\* The date strings that occur, in the order string comparison puts them.
SampleDates == <<"2024-12-31", "2025-01-01", "2025-01-05", "2025-01-31",
                 "2025-02-01", "2025-02-28">>
DateRank(d) == CHOOSE i \in 1..Len(SampleDates) : SampleDates[i] = d

\* The phone strings that occur, ordered likewise; null sorts before any
\* string.
SamplePhones == <<"011", "012", "019">>
PhoneRank(p) ==
  IF p = None THEN 0 ELSE CHOOSE i \in 1..Len(SamplePhones) : SamplePhones[i] = p[1]

\* getMonthDateRange, for the months queried.
getMonthDateRange(month) ==
  IF month = "2025-01" THEN [startDate |-> "2025-01-01", endDate |-> "2025-01-31"]
  ELSE [startDate |-> "2025-02-01", endDate |-> "2025-02-28"]

\* `${year}-${String(month).padStart(2, '0')}` for the year 2025.
MonthString(month) == IF month = 1 THEN "2025-01" ELSE "2025-02"

\* A LeadEventDocument.  A field that is null or missing is <<>>.
LeadDoc(phone, name, date, created, follower, page, status, reason, note, model) ==
  [date |-> date,
   customer |-> [name |-> name, phone |-> phone],
   page |-> page,
   follower |-> follower,
   status_text |-> status,
   reason_code |-> reason,
   note |-> note,
   source |-> [telegram_msg_id |-> "7", model |-> model],
   created_at |-> created]

\* The documents the log may hold at the start.  P2 and P3 share phone, date
\* and created_at; P4 shares its date with them; P5 and P6 have no phone;
\* P7 lies in another month and P8 belongs to another follower.
P1 == LeadDoc(Some("011"), Some("Bo"), "2025-01-01", StartTime - 2, Some("Srey"),
              Some("FB"), Some("A"), None, Some("n1"), "gpt-4o-mini")
P2 == LeadDoc(Some("011"), None, "2025-01-05", StartTime - 1, Some("Srey"),
              Some("TikTok"), Some("B"), None, None, "gpt-4o-mini")
P3 == LeadDoc(Some("011"), Some("Bopha"), "2025-01-05", StartTime - 1, Some("Srey"),
              None, None, Some("C"), Some("n3"), "header-form")
P4 == LeadDoc(Some("012"), Some("Dara"), "2025-01-05", StartTime - 2, Some("Srey"),
              Some("FB"), Some("A"), None, Some("n4"), "gpt-4o-mini")
P5 == LeadDoc(None, Some("Walk"), "2025-01-05", StartTime - 2, Some("Srey"),
              Some("FB"), Some("A"), None, Some("n5"), "gpt-4o-mini")
P6 == LeadDoc(None, None, "2025-01-01", StartTime - 1, Some("Srey"),
              None, Some("B"), None, Some("n6"), "gpt-4o-mini")
P7 == LeadDoc(Some("012"), Some("Dara"), "2025-02-01", StartTime - 1, Some("Srey"),
              Some("FB"), Some("B"), None, Some("n7"), "gpt-4o-mini")
P8 == LeadDoc(Some("011"), Some("Bo"), "2025-01-31", StartTime - 1, Some("Vuth"),
              Some("IG"), Some("F"), None, Some("n8"), "gpt-4o-mini")
PoolDocs == {P1, P2, P3, P4, P5, P6, P7, P8}

\* Every arrangement of the members of a finite set.
Orderings(S) ==
  {f \in [1..Cardinality(S) -> S] : \A i, j \in 1..Cardinality(S) : i # j => f[i] # f[j]}

\* find({ follower, date: { $gte: startDate, $lte: endDate } }) and the
\* $match stage of the follower pipeline, on one document.
MatchesFollowerMonth(e, follower, month) ==
  LET r == getMonthDateRange(month) IN
  /\ e.follower = Some(follower)
  /\ DateRank(e.date) >= DateRank(r.startDate)
  /\ DateRank(e.date) <= DateRank(r.endDate)

\* The $match stage of the monthly summary pipeline.
MatchesMonth(e, month) ==
  LET r == getMonthDateRange(month) IN
  /\ DateRank(e.date) >= DateRank(r.startDate)
  /\ DateRank(e.date) <= DateRank(r.endDate)

\* $sort { 'customer.phone': 1, date: 1, created_at: 1 }: a does not come
\* after b.
SortKeyLeq(a, b) ==
  \/ PhoneRank(a.customer.phone) < PhoneRank(b.customer.phone)
  \/ /\ a.customer.phone = b.customer.phone
     /\ \/ DateRank(a.date) < DateRank(b.date)
        \/ /\ a.date = b.date
           /\ a.created_at <= b.created_at

\* The orders the $sort stage may hand on: the store leaves the order of
\* documents with equal sort keys open.
SortedOrders(log, idx) ==
  {o \in Orderings(idx) :
     \A i \in 1..(Cardinality(idx) - 1) : SortKeyLeq(log[o[i]], log[o[i + 1]])}

\* The documents of one group, in the order they reach the $group stage.
RECURSIVE GroupMembers(_, _, _)
GroupMembers(log, o, key) ==
  IF o = <<>> THEN <<>>
  ELSE IF log[Head(o)].customer.phone = key
       THEN <<Head(o)>> \o GroupMembers(log, Tail(o), key)
       ELSE GroupMembers(log, Tail(o), key)

\* { $ifNull: [a, b] }
IfNull(a, b) == IF a = None THEN b ELSE a

\* The element $push adds to history for one document.
HistoryEntry(e) ==
  [date |-> e.date,
   status |-> IfNull(e.reason_code, e.status_text),
   reason_code |-> e.reason_code,
   note |-> e.note,
   created_at |-> e.created_at]

\* $group as written, with the name taken from the first document.
groupCase_nameFromFirst(log, members, key) ==
  LET first == log[members[1]]
      lastE == log[members[Len(members)]]
  IN [phone |-> key,
      name |-> first.customer.name,
      page |-> lastE.page,
      follower |-> lastE.follower,
      first_contact_date |-> first.date,
      last_update_date |-> lastE.date,
      current_status |-> IfNull(lastE.reason_code, lastE.status_text),
      current_reason_code |-> lastE.reason_code,
      history |-> [i \in 1..Len(members) |-> HistoryEntry(log[members[i]])],
      total_events |-> Len(members)]

\* $group as written, with first_contact_date taken by $last.
groupCase_firstFromLast(log, members, key) ==
  LET lastE == log[members[Len(members)]]
  IN [phone |-> key,
      name |-> lastE.customer.name,
      page |-> lastE.page,
      follower |-> lastE.follower,
      first_contact_date |-> lastE.date,
      last_update_date |-> lastE.date,
      current_status |-> IfNull(lastE.reason_code, lastE.status_text),
      current_reason_code |-> lastE.reason_code,
      history |-> [i \in 1..Len(members) |-> HistoryEntry(log[members[i]])],
      total_events |-> Len(members)]

\* The $group and $project stages for one group: $first and $last read the
\* first and the last document of the group, $push and $sum all of them.
groupCase(log, members, key) ==
  LET first == log[members[1]]
      lastE == log[members[Len(members)]]
  IN [phone |-> key,
      name |-> lastE.customer.name,
      page |-> lastE.page,
      follower |-> lastE.follower,
      first_contact_date |-> first.date,
      last_update_date |-> lastE.date,
      current_status |-> IfNull(lastE.reason_code, lastE.status_text),
      current_reason_code |-> lastE.reason_code,
      history |-> [i \in 1..Len(members) |-> HistoryEntry(log[members[i]])],
      total_events |-> Len(members)]

\* The final stage left out: the cases in any order.
SortedByLastUpdateDesc_unsorted(s) == TRUE

\* $sort { last_update_date: -1 }
SortedByLastUpdateDesc(s) ==
  \A i \in 1..(Len(s) - 1) :
    DateRank(s[i].last_update_date) >= DateRank(s[i + 1].last_update_date)

\* Stages 2 to 5 on the matched documents idx of log: every result the
\* pipeline may return.  $group emits its groups in no particular order and
\* the final $sort leaves cases with equal last_update_date in any order.
runPipeline(log, idx) ==
  UNION { LET keys == {log[i].customer.phone : i \in idx}
              caseSet == {groupCase(log, GroupMembers(log, o, k), k) : k \in keys}
          IN {s \in Orderings(caseSet) : SortedByLastUpdateDesc(s)}
        : o \in SortedOrders(log, idx) }

buildCasesByFollowerAndMonthPipeline(log, follower, month) ==
  runPipeline(log, {i \in 1..Len(log) : MatchesFollowerMonth(log[i], follower, month)})

buildMonthlyCasesSummaryPipeline(log, month) ==
  runPipeline(log, {i \in 1..Len(log) : MatchesMonth(log[i], MonthString(month))})

\* A LeadEvent as MessageParser.parseMessage returns it.
LeadEventOf(phone, name, date, follower, page, status, isUpdate) ==
  [date |-> date,
   customer |-> [name |-> name, phone |-> phone],
   page |-> page,
   follower |-> follower,
   status_text |-> status,
   source |-> [telegram_msg_id |-> "7", model |-> "gpt-4o-mini"],
   is_update |-> isUpdate]

\* Parse results handed to handleMessage: the ignored marker; one new lead
\* for phone 011 dated after every sampled January document; one update
\* for phone 011 with name, page and follower null; an update for a phone
\* the log never holds followed by a lead without phone; one update for
\* phone 011 with an empty name, its own page and follower and no status.
Ignored == [ignored |-> TRUE, events |-> <<>>]
Events(evs) == [ignored |-> FALSE, events |-> evs]
N1 == LeadEventOf(Some("011"), None, "2025-01-31", Some("Srey"), None, Some("D"), FALSE)
U1 == LeadEventOf(Some("011"), None, "2025-01-31", None, None, Some("E"), TRUE)
U2 == LeadEventOf(Some("019"), Some("Nita"), "2025-01-05", Some("Srey"), None, Some("A"), TRUE)
N2 == LeadEventOf(None, Some("Walk"), "2025-01-05", Some("Srey"), None, None, FALSE)
U3 == LeadEventOf(Some("011"), Some(""), "2025-01-31", Some("Vuth"), Some("IG"), None, TRUE)
ParseResults == { Ignored, Events(<<N1>>), Events(<<U1>>), Events(<<U2, N2>>), Events(<<U3>>) }

\* JavaScript falsiness of a nullable string.
Falsy(v) == v = None \/ v = Some("")

\* a || b
OrElse(a, b) == IF Falsy(a) THEN b ELSE a

\* a comes before b in sort({ date: -1, created_at: -1 }) or ties with it.
LatestFirst(a, b) ==
  \/ DateRank(a.date) > DateRank(b.date)
  \/ a.date = b.date /\ a.created_at >= b.created_at

\* findLatestEventByPhone: the positions in the log of the documents it
\* may return, none when it returns null.  Documents that tie in date and
\* created_at come in either order. 
findLatestEventByPhone(log, phone) ==
  IF Falsy(phone) THEN {}
  ELSE LET same == {i \in 1..Len(log) : log[i].customer.phone = phone}
       IN {i \in same : \A j \in same : LatestFirst(log[i], log[j])}

\* The body of the loop of enrichWithUpdateDetection for one event;
\* existing: <<>> for null, else <<document>>.
enrichEvent_historicalStatus(event, existing) ==
  IF ~event.is_update \/ Falsy(event.customer.phone) THEN event
  ELSE IF existing = None THEN [event EXCEPT !.is_update = FALSE]
  ELSE [event EXCEPT
          !.customer = [name |-> OrElse(event.customer.name, existing[1].customer.name),
                        phone |-> event.customer.phone],
          !.page = OrElse(event.page, existing[1].page),
          !.follower = OrElse(event.follower, existing[1].follower),
          !.status_text = OrElse(event.status_text, existing[1].status_text)]

enrichEvent_missDropsEvent(event, existing) ==
  IF ~event.is_update \/ Falsy(event.customer.phone) THEN event
  ELSE IF existing = None
  THEN [event EXCEPT !.is_update = FALSE, !.status_text = None, !.follower = None]
  ELSE [event EXCEPT
          !.customer = [name |-> OrElse(event.customer.name, existing[1].customer.name),
                        phone |-> event.customer.phone],
          !.page = OrElse(event.page, existing[1].page),
          !.follower = OrElse(event.follower, existing[1].follower)]

enrichEvent(event, existing) ==
  IF ~event.is_update \/ Falsy(event.customer.phone) THEN event
  ELSE IF existing = None THEN [event EXCEPT !.is_update = FALSE]
  ELSE [event EXCEPT
          !.customer = [name |-> OrElse(event.customer.name, existing[1].customer.name),
                        phone |-> event.customer.phone],
          !.page = OrElse(event.page, existing[1].page),
          !.follower = OrElse(event.follower, existing[1].follower)]

\* Which events make enrichWithUpdateDetection call the repository.
NeedsLookup(event) == event.is_update /\ ~Falsy(event.customer.phone)

\* For each parsed event, the position of the document the lookup made for
\* it returns: 0 for no lookup or null.
LookupPicks(log, evs) ==
  {f \in [1..Len(evs) -> 0..Len(log)] :
     \A i \in 1..Len(evs) :
       LET found == findLatestEventByPhone(log, evs[i].customer.phone) IN
       IF NeedsLookup(evs[i]) /\ found # {} THEN f[i] \in found ELSE f[i] = 0}

\* const { is_update, ...eventData } = leadEvent;
\* { ...eventData, created_at: new Date() }
toLeadEventDoc(ev) ==
  LeadDoc(ev.customer.phone, ev.customer.name, ev.date, now, ev.follower, ev.page,
          ev.status_text, None, None, ev.source.model)

\* A write that puts each document in the place of the latest one of its
\* phone when there is one.
insertMany_replaceLatest(log, docs) ==
  IF docs = <<>> THEN log
  ELSE LET found == findLatestEventByPhone(log, docs[1].customer.phone) IN
       IF found = {} THEN log \o docs
       ELSE [log EXCEPT ![CHOOSE i \in found : TRUE] = docs[1]] \o Tail(docs)

\* collection.insertOne / insertMany: the documents go to the end.
insertMany(log, docs) == log \o docs

\* The document SalesEntryFlow.saveEntry hands to saveLeadEvent.
EntryDoc ==
  LeadDoc(Some("012"), Some("Bo"), "2025-01-31", now, Some("Srey"), Some("FB"),
          None, Some("B"), None, "header-form")

LogFrame == UNCHANGED <<build, apiKey, now, ticks, pendingEntries,
                        pendingCustomersRequest, lastRequestAt,
                        pendingReportRange, lastReportAt>>

\* handleMessage writing the lead_events_saved entry before it inserts the
\* events.
handleMessage_savedBeforeInsert(parseResult, picks, failAt, written, errAuditFails) ==
  /\ build = "log"
  /\ LogFrame
  /\ logQuery' = None /\ cases' = None
  /\ LET evs == parseResult.events
         enriched == [i \in 1..Len(evs) |->
                        enrichEvent(evs[i], IF picks[i] = 0 THEN None
                                            ELSE Some(events[picks[i]]))]
         docs == [i \in 1..Len(evs) |-> toLeadEventDoc(enriched[i])]
         lookedUp == {i \in 1..Len(evs) : NeedsLookup(evs[i])}
         first == IF lookedUp = {} THEN 0
                  ELSE CHOOSE i \in lookedUp : \A j \in lookedUp : i <= j
         RECURSIVE Phones(_)
         Phones(i) == IF i > Len(evs) THEN <<>>
                      ELSE IF NeedsLookup(evs[i])
                           THEN <<evs[i].customer.phone[1]>> \o Phones(i + 1)
                           ELSE Phones(i + 1)
         Out(audits, lookups, threw) ==
           Outcome("handleMessage", <<>>, audits, lookups, threw, "void", FALSE, "no")
         Caught(audits, lookups) ==
           IF errAuditFails THEN Out(audits, lookups, TRUE)
           ELSE Out(Append(audits, "processing_error"), lookups, FALSE)
     IN
     IF failAt = 1
     THEN /\ UNCHANGED events
          /\ last' = Caught(<<>>, <<>>)
     ELSE IF failAt = 2
     THEN /\ UNCHANGED events
          /\ last' = Caught(<<"message_received">>, <<>>)
     ELSE IF parseResult.ignored
     THEN /\ UNCHANGED events
          /\ last' = Out(<<"message_received", "message_parsed">>, <<>>, FALSE)
     ELSE /\ Len(events) + Len(docs) <= MaxLog
          /\ IF failAt = 3 /\ first # 0
             THEN /\ UNCHANGED events
                  /\ last' = Caught(<<"message_received", "message_parsed">>,
                                    <<evs[first].customer.phone[1]>>)
             ELSE IF failAt = 4
             THEN /\ events' = insertMany(events, SubSeq(docs, 1, written))
                  /\ last' = Caught(<<"message_received", "message_parsed",
                                      "lead_events_saved">>, Phones(1))
             ELSE IF failAt = 5
             THEN /\ events' = insertMany(events, docs)
                  /\ last' = Caught(<<"message_received", "message_parsed">>, Phones(1))
             ELSE /\ events' = insertMany(events, docs)
                  /\ last' = Out(<<"message_received", "message_parsed", "lead_events_saved">>,
                                 Phones(1), FALSE)

\* MessageHandlers.handleMessage for a text whose parse result is
\* parseResult.  picks: what each findLatestEventByPhone call returns.
\* failAt: the repository call that throws (1 the message_received audit
\* write, 2 the message_parsed one, 3 the first findLatestEventByPhone,
\* 4 saveLeadEvents, 5 the lead_events_saved audit write), 0 for none.
\* written: how many documents insertMany had stored when it threw.
\* errAuditFails: the processing_error audit write of the catch block
\* throws as well.
handleMessage(parseResult, picks, failAt, written, errAuditFails) ==
  /\ build = "log"
  /\ LogFrame
  /\ logQuery' = None /\ cases' = None
  /\ LET evs == parseResult.events
         enriched == [i \in 1..Len(evs) |->
                        enrichEvent(evs[i], IF picks[i] = 0 THEN None
                                            ELSE Some(events[picks[i]]))]
         docs == [i \in 1..Len(evs) |-> toLeadEventDoc(enriched[i])]
         lookedUp == {i \in 1..Len(evs) : NeedsLookup(evs[i])}
         first == IF lookedUp = {} THEN 0
                  ELSE CHOOSE i \in lookedUp : \A j \in lookedUp : i <= j
         RECURSIVE Phones(_)
         Phones(i) == IF i > Len(evs) THEN <<>>
                      ELSE IF NeedsLookup(evs[i])
                           THEN <<evs[i].customer.phone[1]>> \o Phones(i + 1)
                           ELSE Phones(i + 1)
         Out(audits, lookups, threw) ==
           Outcome("handleMessage", <<>>, audits, lookups, threw, "void", FALSE, "no")
         Caught(audits, lookups) ==
           IF errAuditFails THEN Out(audits, lookups, TRUE)
           ELSE Out(Append(audits, "processing_error"), lookups, FALSE)
     IN
     IF failAt = 1
     THEN /\ UNCHANGED events
          /\ last' = Caught(<<>>, <<>>)
     ELSE IF failAt = 2
     THEN /\ UNCHANGED events
          /\ last' = Caught(<<"message_received">>, <<>>)
     ELSE IF parseResult.ignored
     THEN /\ UNCHANGED events
          /\ last' = Out(<<"message_received", "message_parsed">>, <<>>, FALSE)
     ELSE /\ Len(events) + Len(docs) <= MaxLog
          /\ IF failAt = 3 /\ first # 0
             THEN /\ UNCHANGED events
                  /\ last' = Caught(<<"message_received", "message_parsed">>,
                                    <<evs[first].customer.phone[1]>>)
             ELSE IF failAt = 4
             THEN /\ events' = insertMany(events, SubSeq(docs, 1, written))
                  /\ last' = Caught(<<"message_received", "message_parsed">>, Phones(1))
             ELSE IF failAt = 5
             THEN /\ events' = insertMany(events, docs)
                  /\ last' = Caught(<<"message_received", "message_parsed">>, Phones(1))
             ELSE /\ events' = insertMany(events, docs)
                  /\ last' = Out(<<"message_received", "message_parsed", "lead_events_saved">>,
                                 Phones(1), FALSE)

\* SalesCaseRepository.saveLeadEvent, as the entry flow calls it on commit.
saveLeadEvent(doc) ==
  /\ build = "log"
  /\ Len(events) < MaxLog
  /\ LogFrame
  /\ events' = insertMany(events, <<doc>>)
  /\ logQuery' = None /\ cases' = None
  /\ last' = NoOutcome

\* A read of the log: the query q and one of the results it may return.
Answer(q, results) ==
  /\ build = "log"
  /\ LogFrame
  /\ UNCHANGED events
  /\ logQuery' = Some(q)
  /\ \E r \in results : cases' = Some(r)
  /\ last' = NoOutcome

CaseQuery(op, follower, month) == [op |-> op, follower |-> follower, month |-> month]

\* The case list of one follower and month (the pipeline of
\* buildCasesByFollowerAndMonthPipeline run on the collection).
getCasesByFollowerAndMonth(follower, month) ==
  Answer(CaseQuery("getCasesByFollowerAndMonth", follower, month),
         buildCasesByFollowerAndMonthPipeline(events, follower, month))

\* The monthly summary of all followers for a month of 2025.
getMonthlyCasesSummary(month) ==
  Answer(CaseQuery("getMonthlyCasesSummary", "", MonthString(month)),
         buildMonthlyCasesSummaryPipeline(events, month))

\* SalesCaseRepository.getLeadEventsByFollowerAndMonth, the read behind the
\* customer list.
getLeadEventsByFollowerAndMonth(follower, month) ==
  Answer(CaseQuery("getLeadEventsByFollowerAndMonth", follower, month),
         {SelectSeq(events, LAMBDA e : MatchesFollowerMonth(e, follower, month))})

\* ReportDataService.getMonthlyLeadEvents, the read behind the reports.
getMonthlyLeadEvents(month) ==
  Answer(CaseQuery("getMonthlyLeadEvents", "", MonthString(month)),
         {SelectSeq(events, LAMBDA e : MatchesMonth(e, MonthString(month)))})

\* The logs the store may hold at the start: up to MaxLog of the sampled
\* documents, each at most once, in any arrival order.
InitialLogs ==
  UNION {{s \in [1..n -> PoolDocs] : \A i, j \in 1..n : i # j => s[i] # s[j]}
         : n \in 0..MaxLog}

QueryFollowers == {"Srey"}
QueryMonths == {"2025-01", "2025-02"}
SummaryMonths == {1}

InitLog ==
  /\ build = "log"
  /\ apiKey = FALSE
  /\ now = StartTime
  /\ ticks = 0
  /\ pendingEntries = [u \in Users |-> None]
  /\ events \in InitialLogs
  /\ pendingCustomersRequest = [u \in Users |-> None]
  /\ lastRequestAt = [u \in Users |-> None]
  /\ pendingReportRange = [u \in Users |-> None]
  /\ lastReportAt = [u \in Users |-> None]
  /\ last = NoOutcome
  /\ ReasonIdle /\ CasesIdle /\ ParseIdle /\ HeaderIdle

\* The failures that reach code: a lookup can only throw when one is made,
\* and an ignored message makes no call after the second audit write.
HandleFailures(parseResult) ==
  IF parseResult.ignored THEN 0..2
  ELSE IF \E i \in 1..Len(parseResult.events) : NeedsLookup(parseResult.events[i])
       THEN 0..5
       ELSE {0, 1, 2, 4, 5}

NextLog ==
  \/ \E parseResult \in ParseResults :
     \E picks \in LookupPicks(events, parseResult.events),
        failAt \in HandleFailures(parseResult) :
     \E written \in (IF failAt = 4 THEN 0..Len(parseResult.events) ELSE {0}),
        errAuditFails \in (IF failAt = 0 THEN {FALSE} ELSE BOOLEAN) :
       /\ handleMessage(parseResult, picks, failAt, written, errAuditFails)
       /\ UNCHANGED <<reasonVars, parseVars, headerVars>>
  \/ saveLeadEvent(EntryDoc) /\ UNCHANGED <<reasonVars, parseVars, headerVars>>
  \/ \E follower \in QueryFollowers, month \in QueryMonths :
       /\ getCasesByFollowerAndMonth(follower, month)
       /\ UNCHANGED <<reasonVars, parseVars, headerVars>>
  \/ \E month \in SummaryMonths :
       /\ getMonthlyCasesSummary(month)
       /\ UNCHANGED <<reasonVars, parseVars, headerVars>>
  \/ \E follower \in QueryFollowers, month \in QueryMonths :
       /\ getLeadEventsByFollowerAndMonth(follower, month)
       /\ UNCHANGED <<reasonVars, parseVars, headerVars>>
  \/ \E month \in SummaryMonths :
       /\ getMonthlyLeadEvents(month)
       /\ UNCHANGED <<reasonVars, parseVars, headerVars>>

SpecLog == InitLog /\ [][NextLog]_vars

(***************************************************************************)
(* The free-text parser (MessageParser) and the model translator            *)
(* (OpenAITranslator): regular-expression primitives, the service's         *)
(* answers, JSON values, callModel and parseMessage.                        *)
(***************************************************************************)
IsLowerLetter(ch) == \E i \in 1..26 : LowerLetters[i] = ch

\* \w
IsWordChar(ch) == IsUpperLetter(ch) \/ IsLowerLetter(ch) \/ ch \in Digits \/ ch = "_"

IsDigit(ch) == ch \in Digits

\* \b at the gap in front of position i (1..Len(s) + 1).
WordBoundary(s, i) ==
  (i > 1 /\ IsWordChar(s[i - 1])) # (i <= Len(s) /\ IsWordChar(s[i]))

LowerSet == {LowerLetters[i] : i \in 1..26}
WordChars == {ch \in LowerSet \cup {UpperLetters[i] : i \in 1..26} \cup Digits \cup {"_"} : TRUE}

\* The end of the longest run of characters of the set chars that starts at
\* position i; i - 1 when the run is empty.
RunEnd(s, i, chars) ==
  CHOOSE j \in (i - 1)..Len(s) :
    /\ \A k \in i..j : s[k] \in chars
    /\ j = Len(s) \/ s[j + 1] \notin chars

\* p occurs in s at position i.
MatchAt(s, i, p) == i + Len(p) - 1 <= Len(s) /\ SubSeq(s, i, i + Len(p) - 1) = p

\* String.prototype.includes for a non-empty p.
Includes(s, p) == \E i \in 1..Len(s) : MatchAt(s, i, p)

\* The smallest element of a non-empty set of positions.
MinOf(S) == CHOOSE i \in S : \A j \in S : i <= j

\* s.match(/(w1|w2|...)/i)[0] for the alternatives words in their order:
\* the leftmost position where one matches and there the first that does;
\* <<>> when none matches.
MatchAlternatives(s, words) ==
  LET low == ToLowerCase(s)
      hits == {i \in 1..Len(s) : \E w \in 1..Len(words) : MatchAt(low, i, words[w])}
  IN IF hits = {} THEN None
     ELSE LET i == MinOf(hits)
              w == MinOf({k \in 1..Len(words) : MatchAt(low, i, words[k])})
          IN Some(SubSeq(s, i, i + Len(words[w]) - 1))

vaguePhrases ==
  << <<"b","u","s","y"," ","d","a","y">>,
     <<"l","o","t","s"," ","o","f"," ","c","h","a","t","s">>,
     <<"m","a","n","y"," ","c","u","s","t","o","m","e","r","s">>,
     <<"g","o","o","d"," ","d","a","y">>,
     <<"s","l","o","w"," ","d","a","y">>,
     <<"n","o"," ","c","u","s","t","o","m","e","r","s">>,
     <<"q","u","i","e","t"," ","t","o","d","a","y">> >>

SpecificPlatforms ==
  << <<"f","a","c","e","b","o","o","k">>,
     <<"t","i","k","t","o","k">>,
     <<"i","n","s","t","a","g","r","a","m">>,
     <<"w","h","a","t","s","a","p","p">>,
     <<"p","a","g","e">> >>

Platforms ==
  << <<"f","a","c","e","b","o","o","k">>,
     <<"t","i","k","t","o","k">>,
     <<"i","n","s","t","a","g","r","a","m">>,
     <<"w","h","a","t","s","a","p","p">>,
     <<"p","a","g","e">>,
     <<"f","b">> >>

StatusPhrases ==
  << <<"i","n","t","e","r","e","s","t","e","d">>,
     <<"n","o","t"," ","i","n","t","e","r","e","s","t","e","d">>,
     <<"c","a","l","l","b","a","c","k">>,
     <<"f","o","l","l","o","w"," ","u","p">>,
     <<"a","p","p","o","i","n","t","m","e","n","t">>,
     <<"m","e","e","t","i","n","g">>,
     <<"t","o","o"," ","f","a","r">>,
     <<"t","o","o"," ","e","x","p","e","n","s","i","v","e">>,
     <<"w","i","l","l"," ","t","h","i","n","k">>,
     <<"n","o"," ","a","n","s","w","e","r">> >>

W_followed_by == <<"f","o","l","l","o","w","e","d"," ","b","y">>

W_following == <<"f","o","l","l","o","w","i","n","g">>


\* hasSpecificData: /\d{8,}/, /[A-Z][a-z]+/ or a platform word.
hasSpecificData(message) ==
  \/ \E i \in 1..(Len(message) - 7) : \A k \in i..(i + 7) : IsDigit(message[k])
  \/ \E i \in 1..(Len(message) - 1) : IsUpperLetter(message[i]) /\ IsLowerLetter(message[i + 1])
  \/ MatchAlternatives(message, SpecificPlatforms) # None

isVagueMessage(message) ==
  /\ \E p \in 1..Len(vaguePhrases) : Includes(ToLowerCase(message), vaguePhrases[p])
  /\ ~hasSpecificData(message)

\* message.match(/\b\d{8,}\b/g)[0]: the first run of eight or more digits
\* that is a word of its own.
PhoneMatch(message) ==
  LET hits == {i \in 1..Len(message) :
                 /\ IsDigit(message[i])
                 /\ WordBoundary(message, i)
                 /\ RunEnd(message, i, Digits) - i + 1 >= 8
                 /\ WordBoundary(message, RunEnd(message, i, Digits) + 1)}
  IN IF hits = {} THEN None
     ELSE Some(SubSeq(message, MinOf(hits), RunEnd(message, MinOf(hits), Digits)))

\* The end of a word [A-Z][a-z]+ that starts at position i and is followed
\* by a word boundary; 0 when there is none.
CapitalWordEnd(s, i) ==
  IF i > Len(s) \/ ~IsUpperLetter(s[i]) THEN 0
  ELSE LET j == RunEnd(s, i + 1, LowerSet) IN
       IF j >= i + 1 /\ WordBoundary(s, j + 1) THEN j ELSE 0

\* message.match(/\b[A-Z][a-z]+(?:\s+[A-Z][a-z]+)?\b/g)[0]
NameMatch(message) ==
  LET hits == {i \in 1..Len(message) :
                 WordBoundary(message, i) /\ CapitalWordEnd(message, i) > 0}
  IN IF hits = {} THEN None
     ELSE LET i == MinOf(hits)
              j == CapitalWordEnd(message, i)
              k == RunEnd(message, j + 1, WhiteSpace)
              m == IF k >= j + 1 THEN CapitalWordEnd(message, k + 1) ELSE 0
          IN Some(SubSeq(message, i, IF m > 0 THEN m ELSE j))

\* message.match(/followed by\s+(\w+)|(\w+)\s+following/i): group 1 or,
\* when it is empty, group 2.
FollowerMatch(message) ==
  LET low == ToLowerCase(message)
      n == Len(message)
      \* "followed by", white space, then a word: the word's first position
      After(i) == RunEnd(message, i + Len(W_followed_by), WhiteSpace) + 1
      first(i) ==
        /\ MatchAt(low, i, W_followed_by)
        /\ After(i) > i + Len(W_followed_by)
        /\ After(i) <= n /\ IsWordChar(message[After(i)])
      \* a word from i, white space, then "following"
      WordEnd(i) == RunEnd(message, i, WordChars)
      second(i) ==
        /\ WordEnd(i) >= i
        /\ RunEnd(message, WordEnd(i) + 1, WhiteSpace) > WordEnd(i)
        /\ MatchAt(low, RunEnd(message, WordEnd(i) + 1, WhiteSpace) + 1, W_following)
      hits == {i \in 1..n : first(i) \/ second(i)}
  IN IF hits = {} THEN None
     ELSE LET i == MinOf(hits) IN
          IF first(i)
          THEN Some(SubSeq(message, After(i), RunEnd(message, After(i), WordChars)))
          ELSE Some(SubSeq(message, i, WordEnd(i)))

\* getTodayDate() at the time of the call.
Today == V_date

\* A LeadEvent as the parsers build it.
ParsedEvent(date, name, phone, page, follower, status, telegramMsgId, model) ==
  [date |-> date,
   customer |-> [name |-> name, phone |-> phone],
   page |-> page,
   follower |-> follower,
   status_text |-> status,
   source |-> [telegram_msg_id |-> telegramMsgId, model |-> model]]

\* extractLeadEvents building an event only when a phone is found.
extractLeadEvents_phoneOnly(message, telegramMsgId, model) ==
  LET customerName == NameMatch(message)
      phoneNumber == PhoneMatch(message)
  IN IF phoneNumber # None
     THEN << ParsedEvent(Today, customerName, phoneNumber,
                         MatchAlternatives(message, Platforms),
                         FollowerMatch(message),
                         MatchAlternatives(message, StatusPhrases),
                         telegramMsgId, model) >>
     ELSE <<>>

\* extractLeadEvents: at most one event, built when a name or a phone is
\* found.
extractLeadEvents(message, telegramMsgId, model) ==
  LET customerName == NameMatch(message)
      phoneNumber == PhoneMatch(message)
  IN IF customerName # None \/ phoneNumber # None
     THEN << ParsedEvent(Today, customerName, phoneNumber,
                         MatchAlternatives(message, Platforms),
                         FollowerMatch(message),
                         MatchAlternatives(message, StatusPhrases),
                         telegramMsgId, model) >>
     ELSE <<>>

\* JSON values as JSON.parse returns them.
JNull == <<"null">>
JTrue == <<"true">>
JNumber == <<"number">>
JString(s) == <<"string", s>>
JArray(items) == <<"array", items>>
JObject(pairs) == <<"object", pairs>>

\* typeof v === 'object' for a truthy v (arrays included).
IsObjectLike(v) == v[1] \in {"object", "array"}

\* v[name]: <<>> for undefined.  A key given twice keeps its last value.
Field(v, name) ==
  IF v[1] # "object" THEN None
  ELSE LET at == {i \in 1..Len(v[2]) : v[2][i][1] = name} IN
       IF at = {} THEN None
       ELSE Some(v[2][CHOOSE i \in at : \A j \in at : j <= i][2])

\* typeof v[name] === 'string' ? v[name] : null
StringField(v, name) ==
  LET f == Field(v, name) IN
  IF f # None /\ f[1][1] = "string" THEN Some(f[1][2]) ELSE None

\* JavaScript truthiness of an optional JSON value.
Truthy(f) ==
  /\ f # None
  /\ f[1][1] \notin {"null", "false"}
  /\ f[1] # JString(<<>>)

\* normalizeLeadEvent: <<>> for null.
normalizeLeadEvent(item, telegramMsgId, model) ==
  IF ~IsObjectLike(item) THEN None
  ELSE LET customer == Field(item, "customer")
           date == IF StringField(item, "date") # None
                   THEN StringField(item, "date")[1] ELSE Today
       IN IF ~Truthy(customer) \/ ~IsObjectLike(customer[1])
          THEN Some(ParsedEvent(date, None, None, StringField(item, "page"),
                                StringField(item, "follower"),
                                StringField(item, "status_text"), telegramMsgId, model))
          ELSE Some(ParsedEvent(date, StringField(customer[1], "name"),
                                StringField(customer[1], "phone"),
                                StringField(item, "page"),
                                StringField(item, "follower"),
                                StringField(item, "status_text"), telegramMsgId, model))

RECURSIVE NormalizeItems(_, _, _)
NormalizeItems(items, telegramMsgId, model) ==
  IF items = <<>> THEN <<>>
  ELSE normalizeLeadEvent(Head(items), telegramMsgId, model)
         \o NormalizeItems(Tail(items), telegramMsgId, model)

\* normalizePayload returning the normalized list as it is, empty or not.
normalizePayload_keepsEmptyList(payload, telegramMsgId, model) ==
  IF IsObjectLike(payload) /\ Field(payload, "ignored") = Some(JTrue) THEN Some(Ignored)
  ELSE IF payload[1] # "array" THEN None
  ELSE Some(Events(NormalizeItems(payload[2], telegramMsgId, model)))

\* normalizePayload reading every payload that is no array as the marker.
normalizePayload_ignoresNonArray(payload, telegramMsgId, model) ==
  IF payload[1] # "array" THEN Some(Ignored)
  ELSE LET normalizedEvents == NormalizeItems(payload[2], telegramMsgId, model) IN
       IF normalizedEvents = <<>> THEN Some(Ignored) ELSE Some(Events(normalizedEvents))

\* normalizePayload: <<>> for null, else <<ParseResult>>.
normalizePayload(payload, telegramMsgId, model) ==
  IF IsObjectLike(payload) /\ Field(payload, "ignored") = Some(JTrue) THEN Some(Ignored)
  ELSE IF payload[1] # "array" THEN None
  ELSE LET normalizedEvents == NormalizeItems(payload[2], telegramMsgId, model) IN
       IF normalizedEvents = <<>> THEN Some(Ignored) ELSE Some(Events(normalizedEvents))

\* What a call returns or raises.
Return(v) == [threw |-> FALSE, value |-> v]
Throw == [threw |-> TRUE, value |-> None]

\* The content of a completion: form is how the text carries its JSON
\* ("plain": no brace or bracket at all, "bare": the text is the JSON,
\* "fenced": inside a code fence, "embedded": between other words,
\* "nonstring": the content is not a string), json what JSON.parse makes of
\* the extracted text, <<>> when it raises a SyntaxError.
Content(form, json) == [form |-> form, json |-> json]

\* extractJson then JSON.parse then normalizePayload, with the try of
\* parseAiContent around the last two only: text.trim() on a content that
\* is no string raises out of parseAiContent.
parseAiContent(content, telegramMsgId, model) ==
  IF content.form = "nonstring" THEN Throw
  ELSE IF content.form = "plain" THEN Return(None)
  ELSE IF content.json = None THEN Return(None)
  ELSE Return(normalizePayload(content.json[1], telegramMsgId, model))

\* One answer of the completion service to one request.  kind: "abort"
\* (the timer aborted the request), "error" (fetch rejected), "http" (a
\* response that is not ok: status and whether its text includes 'invalid
\* model'), "badbody" (ok, response.json() rejects), "ok" (content: <<>>
\* for missing, null or empty content).
Response(kind, status, invalidModelText, content) ==
  [kind |-> kind, status |-> status, invalidModelText |-> invalidModelText,
   content |-> content]

defaultModel == "gpt-4o-mini"

\* The answer taken for a request beyond the sampled ones.
Unanswered == Response("error", 0, FALSE, None)

\* A retry test that only asks whether the response is not ok.
ShouldFallback_anyError(response, aiModel, allowFallback) == response.kind = "http"

\* isInvalidModel && allowFallback && aiModel !== this.defaultModel
ShouldFallback(response, aiModel, allowFallback) ==
  /\ response.kind = "http"
  /\ response.status = 400 /\ response.invalidModelText
  /\ allowFallback
  /\ aiModel # defaultModel

\* A catch clause that lets the error go on to the caller.
Caught_rethrow(calls) == [threw |-> TRUE, content |-> None, calls |-> calls]

\* The catch clause of callModel: log and return null.
Caught(calls) == [threw |-> FALSE, content |-> None, calls |-> calls]

\* return null inside the try block.
ReturnsNull(calls) == [threw |-> FALSE, content |-> None, calls |-> calls]

\* callModel up to the completion's content, the part OpenAITranslator and
\* HeaderFormParser share: the request, the test of the response, the one
\* retry against the default model.  calls lists the requests made, each
\* with the model asked for and the answer; depth counts them.
RECURSIVE requestContent(_, _, _, _, _)
requestContent(aiModel, allowFallback, responses, depth, calls) ==
  LET response == IF depth <= Len(responses) THEN responses[depth] ELSE Unanswered
      made == Append(calls, [model |-> aiModel, response |-> response])
  IN IF response.kind \in {"abort", "error"} THEN Caught(made)
     ELSE IF response.kind = "http"
     THEN IF ShouldFallback(response, aiModel, allowFallback)
          THEN requestContent(defaultModel, FALSE, responses, depth + 1, made)
          ELSE ReturnsNull(made)
     ELSE IF response.kind = "badbody" THEN Caught(made)
     ELSE IF response.content = None THEN ReturnsNull(made)
     ELSE [threw |-> FALSE, content |-> response.content, calls |-> made]

\* OpenAITranslator.callModel: [threw, value, calls], value <<>> for null.
callModel(aiModel, allowFallback, responses, telegramMsgId, sourceModel) ==
  LET r == requestContent(aiModel, allowFallback, responses, 1, <<>>) IN
  IF r.threw \/ r.content = None
  THEN [threw |-> r.threw, value |-> None, calls |-> r.calls]
  ELSE LET p == parseAiContent(r.content[1], telegramMsgId, sourceModel) IN
       IF p.threw
       THEN [threw |-> Caught(r.calls).threw, value |-> None, calls |-> r.calls]
       ELSE [threw |-> FALSE, value |-> p.value, calls |-> r.calls]

\* OpenAITranslator.translate.  hasKey: OPENAI_API_KEY is set; configured:
\* this.model.
translate(message, telegramMsgId, model, hasKey, configured, responses) ==
  IF ~hasKey THEN [threw |-> FALSE, value |-> None, calls |-> <<>>]
  ELSE callModel(configured, TRUE, responses, telegramMsgId, model)

\* MessageParser.parseMessage: [threw, result, calls].
parseMessage(message, telegramMsgId, model, hasKey, configured, responses) ==
  LET trimmedMessage == Trim(message) IN
  IF trimmedMessage = <<>> \/ isVagueMessage(trimmedMessage)
  THEN [threw |-> FALSE, result |-> Some(Ignored), calls |-> <<>>]
  ELSE LET aiResult == translate(message, telegramMsgId, model, hasKey, configured, responses)
           leadEvents == extractLeadEvents(trimmedMessage, telegramMsgId, model)
       IN IF aiResult.threw
          THEN [threw |-> TRUE, result |-> None, calls |-> aiResult.calls]
          ELSE IF aiResult.value # None
          THEN [threw |-> FALSE, result |-> aiResult.value, calls |-> aiResult.calls]
          ELSE [threw |-> FALSE,
                result |-> Some(IF leadEvents = <<>> THEN Ignored ELSE Events(leadEvents)),
                calls |-> aiResult.calls]

M_empty == <<>>
M_blank == <<" ","\n">>
M_busy == <<"b","u","s","y"," ","d","a","y">>
M_Busy == <<"B","u","s","y"," ","d","a","y">>
M_quiet_fb == <<"q","u","i","e","t"," ","t","o","d","a","y"," ","p","a","g","e">>
M_hi == <<"h","i"," ","0","1","2","3">>
M_lead == <<"D","a","r","a"," ","S","o","k"," ","0","1","2","3","4","5","6","7","8"," ","f","b"," ","n","o","t"," ","i","n","t","e","r","e","s","t","e","d"," ","f","o","l","l","o","w","e","d"," ","b","y"," ","S","r","e","y">>
M_following == <<"x","0","1","2","3","4","5","6","7","8"," ","S","r","e","y"," ","f","o","l","l","o","w","i","n","g"," ","0","1","2","3","4","5","6","7","8","_">>
M_two == <<"D","a","r","a"," ","0","1","2","3","4","5","6","7","8"," ","S","o","k"," ","0","8","7","6","5","4","3","2","1">>

\* The texts sampled for the free-text parser.
ParseTexts ==
  { M_empty, M_blank, M_busy, M_Busy, M_quiet_fb, M_hi, M_lead, M_following, M_two }

J_customer == JObject(<< <<"name", JString(V_name)>>, <<"phone", JString(V_phone)>> >>)
J_event ==
  JObject(<< <<"date", JString(T_day1)>>, <<"customer", J_customer>>,
             <<"page", JNull>>, <<"follower", JString(V_follower)>>,
             <<"status_text", JNumber>>, <<"is_update", JTrue>> >>)
J_flat == JObject(<< <<"customer", JString(V_name)>>, <<"page", JString(V_page)>> >>)
\* An event in the flat shape: no customer object, name and phone beside
\* the other fields.
J_legacy ==
  JObject(<< <<"date", JString(T_day1)>>, <<"name", JString(V_name)>>,
             <<"phone", JString(V_phone)>>, <<"page", JString(V_page)>> >>)

\* The JSON payloads sampled: the ignored marker, an object that is neither
\* the marker nor an array, a string, null, arrays without a usable item,
\* arrays of events, an array of one event in the flat shape.
Payloads ==
  { JObject(<< <<"ignored", JTrue>> >>),
    JObject(<< <<"ignored", JString(V_name)>> >>),
    JString(V_name),
    JNull,
    JArray(<<>>),
    JArray(<<JNull, JNumber>>),
    JArray(<<J_event>>),
    JArray(<<JNull, J_flat, JArray(<<>>)>>),
    JArray(<<J_legacy>>) }

\* The completion contents sampled.
Contents ==
  { Content("plain", None), Content("nonstring", None),
    Content("bare", None), Content("fenced", None) }
  \cup { Content("bare", Some(p)) : p \in Payloads }
  \cup { Content("fenced", Some(JArray(<<J_event>>))),
         Content("embedded", Some(JObject(<< <<"ignored", JTrue>> >>))) }

R_invalid_model == Response("http", 400, TRUE, None)

\* The answers sampled for one request.
Responses ==
  { Response("abort", 0, FALSE, None),
    Response("error", 0, FALSE, None),
    R_invalid_model,
    Response("http", 400, FALSE, None),
    Response("http", 404, TRUE, None),
    Response("http", 500, FALSE, None),
    Response("badbody", 200, FALSE, None),
    Response("ok", 200, FALSE, None) }
  \cup { Response("ok", 200, FALSE, Some(c)) : c \in Contents }

\* The answers the service gives to the first, second and third request
\* of one message: every answer to the first, every answer to a second
\* request that follows a response that was not ok, 'invalid model' to
\* any request after that.
ServiceScripts ==
  { <<r1, r2, R_invalid_model>> : r1 \in {r \in Responses : r.kind = "http"},
                                  r2 \in Responses }
  \cup { <<r1, R_invalid_model, R_invalid_model>> : r1 \in Responses }

ConfiguredModels == { defaultModel, "gpt-x" }

(***************************************************************************)
(* HeaderFormParser.parse with the completion service behind it.           *)
(***************************************************************************)
JFalse == <<"false">>

\* HeaderFormParser.parseAiContent: Throw, or Return of <<>> (null) or of
\* <<[valid, data]>> with data the JSON value of parsed.data.
parseHeaderAiContent(content) ==
  IF content.form = "nonstring" THEN Throw
  ELSE IF content.form = "plain" THEN Return(None)
  ELSE IF content.json = None THEN Return(None)
  ELSE LET parsed == content.json[1] IN
       IF ~IsObjectLike(parsed) THEN Return(None)
       ELSE IF Field(parsed, "valid") = Some(JTrue) /\ Truthy(Field(parsed, "data"))
       THEN Return(Some([valid |-> TRUE, data |-> Field(parsed, "data")[1]]))
       ELSE IF Field(parsed, "valid") = Some(JFalse)
       THEN Return(Some([valid |-> FALSE, data |-> JNull]))
       ELSE Return(None)

\* HeaderFormParser.callModel: [threw, value, calls].
headerCallModel(aiModel, allowFallback, responses) ==
  LET r == requestContent(aiModel, allowFallback, responses, 1, <<>>) IN
  IF r.threw \/ r.content = None
  THEN [threw |-> r.threw, value |-> None, calls |-> r.calls]
  ELSE LET p == parseHeaderAiContent(r.content[1]) IN
       IF p.threw
       THEN [threw |-> Caught(r.calls).threw, value |-> None, calls |-> r.calls]
       ELSE [threw |-> FALSE, value |-> p.value, calls |-> r.calls]

\* The data of a model answer as validateHeaderData reads it: each field a
\* string or absent.
HeaderDataOf(data) ==
  [k \in {"date", "name", "phone", "page", "follower"} |-> StringField(data, k)]

\* validateHeaderData raises on the data of a model answer: in the order of
\* requiredKeys it meets a truthy value that is no string (value.trim is
\* not a function) before any missing or blank one.
ValidateRaises(data) ==
  \E i \in 1..5 :
    /\ Truthy(Field(data, HeaderKeys[i]))
    /\ Field(data, HeaderKeys[i])[1][1] # "string"
    /\ \A j \in 1..(i - 1) :
         /\ StringField(data, HeaderKeys[j]) # None
         /\ Trim(StringField(data, HeaderKeys[j])[1]) # <<>>

\* HeaderFormParser.parse from the message to the result, the requests to
\* the service included: [threw, result, calls].
parse(message, hasKey, configured, responses) ==
  LET trimmed == Trim(message) IN
  IF ~looksLikeHeader(trimmed) \/ ~hasKey
  THEN [threw |-> FALSE, result |-> parseHeader(message, hasKey, None), calls |-> <<>>]
  ELSE LET r == headerCallModel(configured, TRUE, responses)
           aiResult == r.value
       IN IF r.threw
          THEN [threw |-> TRUE, result |-> Invalid("exception"), calls |-> r.calls]
          ELSE IF aiResult = None
          THEN [threw |-> FALSE, result |-> parseHeader(message, TRUE, None), calls |-> r.calls]
          ELSE IF ~aiResult[1].valid
          THEN [threw |-> FALSE,
                result |-> parseHeader(message, TRUE,
                                       Some([valid |-> FALSE, data |-> EmptyHeaderData])),
                calls |-> r.calls]
          ELSE IF ValidateRaises(aiResult[1].data)
          THEN [threw |-> TRUE, result |-> Invalid("exception"), calls |-> r.calls]
          ELSE [threw |-> FALSE,
                result |-> parseHeader(message, TRUE,
                                       Some([valid |-> TRUE,
                                             data |-> HeaderDataOf(aiResult[1].data)])),
                calls |-> r.calls]

\* A header block written from its lines, each a pair <<KEY, value>>.
RECURSIVE RenderLines(_)
RenderLines(lines) ==
  IF lines = <<>> THEN <<>>
  ELSE NL \o HeaderLine(Head(lines)[1], Head(lines)[2]) \o RenderLines(Tail(lines))

RenderBlock(lines) == HDR \o RenderLines(lines)

K_EMAIL == <<"E","M","A","I","L">>
V_email == <<"b","o","@","x">>
V_bad_date == <<"0","5","/","0","1","/","2","0","2","5">>
V_short_date == <<"2","0","2","5","-","1","-","5">>

FiveLines ==
  << <<K_DATE, V_date>>, <<K_NAME, V_name>>, <<K_PHONE, V_phone>>,
     <<K_PAGE, V_page>>, <<K_FOLLOWER, V_follower>> >>

Rotate(s, n) == [i \in 1..Len(s) |-> s[((i + n - 1) % Len(s)) + 1]]
Reverse(s) == [i \in 1..Len(s) |-> s[Len(s) + 1 - i]]
Without(s, n) == SubSeq(s, 1, n - 1) \o SubSeq(s, n + 1, Len(s))

\* The blocks sampled, as their lines after the marker: the five lines in
\* ten orders, each block of four of them, each with one line repeated at
\* the end, one with a sixth unknown key, one with an unknown key in the
\* place of PAGE, and two with a date that is no YYYY-MM-DD.
HeaderBlocks ==
  { Rotate(FiveLines, n) : n \in 0..4 }
  \cup { Reverse(Rotate(FiveLines, n)) : n \in 0..4 }
  \cup { Without(FiveLines, n) : n \in 1..5 }
  \cup { Append(FiveLines, <<FiveLines[n][1], V_follower>>) : n \in 1..5 }
  \cup { Append(FiveLines, <<K_EMAIL, V_email>>),
         [FiveLines EXCEPT ![4] = <<K_EMAIL, V_email>>],
         [FiveLines EXCEPT ![1] = <<K_DATE, V_bad_date>>],
         [Reverse(FiveLines) EXCEPT ![5] = <<K_DATE, V_short_date>>] }

J_header ==
  JObject(<< <<"date", JString(V_date)>>, <<"name", JString(<<"B","O"," ">>)>>,
             <<"phone", JString(V_phone)>>, <<"page", JString(V_page)>>,
             <<"follower", JString(V_follower)>> >>)
J_header_no_phone ==
  JObject(<< <<"date", JString(V_date)>>, <<"name", JString(V_name)>>,
             <<"phone", JNull>>, <<"page", JString(V_page)>>,
             <<"follower", JString(V_follower)>> >>)
J_header_numeric_phone ==
  JObject(<< <<"date", JString(V_date)>>, <<"name", JString(V_name)>>,
             <<"phone", JNumber>>, <<"page", JString(V_page)>>,
             <<"follower", JString(V_follower)>> >>)

\* The answers sampled for one header request: the failures of the
\* transport, and completions that say valid with full data, with a null
\* phone, with a numeric phone, that say invalid, that say neither, that
\* carry no JSON or no string.
HeaderResponses ==
  { Response("abort", 0, FALSE, None),
    R_invalid_model,
    Response("http", 500, FALSE, None),
    Response("ok", 200, FALSE, None),
    Response("ok", 200, FALSE, Some(Content("plain", None))),
    Response("ok", 200, FALSE, Some(Content("nonstring", None))),
    Response("ok", 200, FALSE, Some(Content("bare", None))) }
  \cup { Response("ok", 200, FALSE, Some(Content("bare", Some(j)))) :
           j \in { JObject(<< <<"valid", JTrue>>, <<"data", J_header>> >>),
                   JObject(<< <<"valid", JTrue>>, <<"data", J_header_no_phone>> >>),
                   JObject(<< <<"valid", JTrue>>, <<"data", J_header_numeric_phone>> >>),
                   JObject(<< <<"valid", JFalse>>, <<"error", JString(V_name)>> >>),
                   JObject(<< <<"data", J_header>> >>) } }

HeaderScripts ==
  { <<r1, r2, R_invalid_model>> : r1 \in {r \in HeaderResponses : r.kind = "http"},
                                  r2 \in HeaderResponses }
  \cup { <<r1, R_invalid_model, R_invalid_model>> : r1 \in HeaderResponses }

HeaderInputs ==
  { [lines |-> b, configured |-> c] : b \in HeaderBlocks, c \in ConfiguredModels }

\* One header block goes through HeaderFormParser.parse.
ApplyHeaderParse ==
  /\ hfInput # None
  /\ hfResult = None
  /\ \E responses \in HeaderScripts :
       hfResult' = Some(parse(RenderBlock(hfInput[1].lines), apiKey,
                              hfInput[1].configured, responses))
  /\ UNCHANGED hfInput
  /\ UNCHANGED <<flowVars, reasonVars, caseVars, parseVars>>

ParseInputs ==
  { [message |-> m, configured |-> c] : m \in ParseTexts, c \in ConfiguredModels }

\* A free-text message or a header block waits for its parser.
InitParse ==
  /\ build = "parse"
  /\ apiKey \in BOOLEAN
  /\ \/ pmInput \in { Some(i) : i \in ParseInputs } /\ hfInput = None
     \/ hfInput \in { Some(i) : i \in HeaderInputs } /\ pmInput = None
  /\ pmResult = None
  /\ hfResult = None
  /\ FlowsIdle
  /\ ReasonIdle /\ CasesIdle

\* One message goes through parseMessage; the service answers each request
\* as the script says.
ApplyParseMessage ==
  /\ pmInput # None
  /\ pmResult = None
  /\ \E responses \in ServiceScripts :
       pmResult' = Some(parseMessage(pmInput[1].message, "7", "gpt-4o-mini",
                                     apiKey, pmInput[1].configured, responses))
  /\ UNCHANGED pmInput
  /\ UNCHANGED <<flowVars, reasonVars, caseVars, headerVars>>

NextParse ==
  \/ ApplyParseMessage
  \/ ApplyHeaderParse

SpecParse == InitParse /\ [][NextParse]_vars

(***************************************************************************)
(* Properties.                                                             *)
(***************************************************************************)
\* A pending state this reply may act on: present, created in this chat,
\* not past its expiry.
Live(p, c) == p # None /\ p[1].chatId = c /\ p[1].expiresAt >= now

\* The replies the registry accepts for the code r.
ResolvesTo(text, r) ==
  LET t == Trim(text) IN
  \/ t = <<r>>
  \/ t = <<ToLowerChar(r)>>
  \/ t = <<r, " ", "-", " ">> \o REASON_CODE_LABELS[r]

Resolving == [t \in EntryTexts |-> {r \in Codes : ResolvesTo(t, r)}]

\* C1: every event the entry flow has persisted carries a reason_code that
\* is one of A..J, never null, and a pending entry that waits for the note
\* (the step before the commit) already holds a selected reason in A..J.
C1_ReasonNeverSkipped ==
  /\ \A i \in 1..Len(events) :
       /\ events[i].reason_code # None
       /\ events[i].reason_code[1] \in Codes
  /\ \A u \in Users :
       (pendingEntries[u] # None /\ pendingEntries[u][1].step = "awaiting_note")
         => /\ pendingEntries[u][1].reasonCode # None
            /\ pendingEntries[u][1].reasonCode[1] \in Codes

\* An event has been persisted after the reply "j " selected reason J.
C1_Witness ==
  /\ build = "entry"
  /\ Len(events) = 1
  /\ events[1].reason_code = Some("J")
  /\ last.op = "handlePending"
  /\ last.replies = <<Reply("saved")>>

HeaderValues == [date |-> V_date, name |-> V_name, phone |-> V_phone,
                 page |-> V_page, follower |-> V_follower]

\* The note the flow is to store for a reply: null for "-", else the reply
\* without its surrounding blanks.
ExpectedNote(text) ==
  IF text = T_dash THEN None
  ELSE IF text = T_call_back THEN Some(<<"c","a","l","l"," ","b","a","c","k">>)
  ELSE Some(Trim(text))

C4_InvalidReasonKeepsState ==
  [][\A u \in Users, c \in Chats, mid \in MsgIds, failAt \in 0..2, text \in ReasonReplies :
       ( /\ last'.op = "handlePending"
         /\ Live(pendingEntries[u], c)
         /\ pendingEntries[u][1].step = "awaiting_reason"
         /\ Resolving[text] = {}
         /\ handlePending(u, c, text, mid, failAt) )
       => /\ pendingEntries' = pendingEntries
          /\ events' = events
          /\ last'.replies = <<Reply("choose_one"), Reply("menu")>>
          /\ last'.audits = <<>>
    ]_vars

\* The menu has been sent again and the entry still waits for a reason.
C4_Witness ==
  /\ build = "entry"
  /\ last.op = "handlePending"
  /\ last.replies = <<Reply("choose_one"), Reply("menu")>>
  /\ pendingEntries[1] # None
  /\ pendingEntries[1][1].step = "awaiting_reason"
  /\ pendingEntries[1][1].reasonCode = None
  /\ events = <<>>

DroppedUnused(before, after) ==
  /\ before # None
  /\ after = None
  /\ events' = events
  /\ lastRequestAt' = lastRequestAt
  /\ lastReportAt' = lastReportAt
  /\ last'.lookups = <<>>
  /\ last'.audits = <<>>

C8_CommandDiscardsPending ==
  [][\A u \in Users, c \in Chats :
       /\ \A text \in CustomersTexts :
            ( /\ pendingCustomersRequest[u] # None
              /\ StartsWith(text, <<"/">>)
              /\ \/ customersCommand(u, c, text)
                 \/ \E lookup \in LookupResults : customersText(u, c, text, lookup) )
            => /\ \/ pendingCustomersRequest'[u] = None
                  \/ pendingCustomersRequest'[u] = Some(
                       [chatId |-> c, expiresAt |-> now + customersTimeoutMs,
                        step |-> "awaiting_follower", follower |-> None])
               /\ last'.lookups = <<>>
       /\ \A text \in RangeTexts :
            ( /\ pendingReportRange[u] # None
              /\ StartsWith(text, <<"/">>)
              /\ \E lookup \in LookupResults :
                   \/ reportCommand(u, c, text, lookup)
                   \/ followCommand(u, c, text, lookup)
                   \/ rangeText(u, c, text, lookup) )
            => /\ \/ pendingReportRange'[u] = None
                  \/ \E kind \in {"report", "follow"} :
                       /\ last'.op = kind
                       /\ last'.replies = <<Reply("range_prompt")>>
                       /\ pendingReportRange'[u] = Some(
                            [chatId |-> c, expiresAt |-> now + rangeTimeoutMs, type |-> kind])
               /\ last'.op = "rangeText" => last'.lookups = <<>>
    ]_vars

\* "/report 7" has run its lookup and answered while the range prompt
\* opened by an earlier "/follow" is still pending.
C8_Witness ==
  /\ build = "range"
  /\ last.op = "report"
  /\ last.lookups # <<>>
  /\ pendingReportRange[1] # None
  /\ pendingReportRange[1][1].type = "follow"

\* The command was refused with the number of whole seconds that covers
\* the remaining milliseconds, and no lookup ran.
Rejected(remaining) ==
  /\ last'.lookups = <<>>
  /\ Len(last'.replies) = 1
  /\ last'.replies[1].kind = "wait"
  /\ last'.replies[1].arg * 1000 >= remaining
  /\ (last'.replies[1].arg - 1) * 1000 < remaining

\* C9: /customers, /report or /follow sent at a time t' less than the
\* cooldown after the user's last completion is refused with
\* ceil((cooldown - (t' - last)) / 1000) seconds, runs no lookup, and leaves
\* the pending-state map and the timestamp map as they were.
C9_RateLimitedCommandRejected ==
  [][\A u \in Users, c \in Chats :
       /\ ( /\ last'.op = "customersCommand"
            /\ lastRequestAt[u] # None
            /\ now - lastRequestAt[u][1] < cooldownMs
            /\ \E text \in CustomersCommandTexts : customersCommand(u, c, text) )
          => /\ Rejected(cooldownMs - (now - lastRequestAt[u][1]))
             /\ pendingCustomersRequest' = pendingCustomersRequest
             /\ lastRequestAt' = lastRequestAt
       /\ ( /\ last'.op \in {"report", "follow", "basicReportCommand"}
            /\ lastReportAt[u] # None
            /\ now - lastReportAt[u][1] < reportCooldownMs
            /\ \E lookup \in LookupResults :
                 \/ \E text \in ReportTexts : reportCommand(u, c, text, lookup)
                 \/ \E text \in FollowTexts : followCommand(u, c, text, lookup)
                 \/ \E text \in BasicReportTexts : basicReportCommand(u, c, text, lookup) )
          => /\ Rejected(reportCooldownMs - (now - lastReportAt[u][1]))
             /\ pendingReportRange' = pendingReportRange
             /\ lastReportAt' = lastReportAt
    ]_vars

\* /follow sent one millisecond after a completed report was refused with
\* a wait of 300 s (299999 ms remain), the earlier timestamp untouched.
C9_Witness ==
  /\ build = "range"
  /\ last.op = "follow"
  /\ last.replies = <<ReplyArg("wait", 300)>>
  /\ last.lookups = <<>>
  /\ lastReportAt[1] = Some(now - 1)

\* C10: a cooldown timestamp is written only by a query whose lookup
\* returned and whose result was sent: whenever a timestamp of either map
\* changes, the handler ran a lookup and its one reply is the result (so
\* an invalid month or range, a re-prompt, the start of a flow and a
\* failed lookup write none).
C10_CooldownOnlyOnSuccess ==
  [][(lastRequestAt' # lastRequestAt \/ lastReportAt' # lastReportAt)
       => /\ last'.lookups # <<>>
          /\ Len(last'.replies) = 1
          /\ last'.replies[1].kind \in {"customer_list", "report", "no_cases"}
    ]_vars

\* The plain /report command has answered "Failed to generate report."
\* after its lookup threw, and the user's cooldown timestamp is the time
\* of that failed call.
C10_Witness ==
  /\ build = "basic"
  /\ last.op = "basicReportCommand"
  /\ last.replies = <<Reply("failed")>>
  /\ lastReportAt[1] = Some(now)

\* A report or follow lookup returned and its result was sent by the
\* update handled last.
LookupCompleted(o) ==
  /\ o.op \in {"report", "follow", "rangeText", "basicReportCommand"}
  /\ o.lookups # <<>>
  /\ Len(o.replies) = 1
  /\ o.replies[1].kind \in {"report", "no_cases"}

\* C11: /report and /follow share one cooldown, and within it no second
\* lookup runs for the user: when the update handled last completed a
\* report or follow lookup at time t (the time the handlers record in
\* lastReportAt), an update of that user handled before t + cooldown runs no
\* lookup, whether it is a command or a reply to a range prompt that was
\* opened before t.
C11_OneLookupPerCooldown ==
  [][\A u \in Users :
       ( /\ LookupCompleted(last)
         /\ lastReportAt[u] # None
         /\ now - lastReportAt[u][1] < reportCooldownMs
         /\ ticks' = ticks )
       => last'.lookups = <<>>
    ]_vars

\* A reply to a range prompt ran a lookup one millisecond after a report
\* lookup of the same user had completed: the prompt had been opened
\* before that report and was still in place.
C11_Witness ==
  /\ build = "range"
  /\ last.op = "rangeText"
  /\ last.lookups # <<>>
  /\ lastReportAt[1] = Some(now - 1)

\* The read handled last was a case aggregation.
IsCaseQuery ==
  /\ logQuery # None
  /\ logQuery[1].op \in {"getCasesByFollowerAndMonth", "getMonthlyCasesSummary"}

\* The positions in log of the documents the filter of query q selects.
MatchedBy(log, q) ==
  {i \in 1..Len(log) :
     /\ q.op = "getCasesByFollowerAndMonth" => log[i].follower = Some(q.follower)
     /\ DateRank(log[i].date) >= DateRank(getMonthDateRange(q.month).startDate)
     /\ DateRank(log[i].date) <= DateRank(getMonthDateRange(q.month).endDate)}

\* C12: no aggregated case is built from an event without a phone: no case
\* with a null phone key is emitted, and the cases' total_events add up to
\* the number of matched events that have a phone.
C12_NoCaseWithoutPhone ==
  IsCaseQuery =>
    LET out == cases[1]
        idx == MatchedBy(events, logQuery[1])
        RECURSIVE Total(_)
        Total(i) == IF i > Len(out) THEN 0 ELSE out[i].total_events + Total(i + 1)
    IN /\ \A i \in 1..Len(out) : out[i].phone # None
       /\ Total(1) = Cardinality({j \in idx : events[j].customer.phone # None})

\* The aggregation has returned a case keyed by the null phone that merges
\* two events without phone.
C12_Witness ==
  /\ IsCaseQuery
  /\ \E i \in 1..Len(cases[1]) :
       /\ cases[1][i].phone = None
       /\ cases[1][i].total_events = 2

\* a is strictly before b in (date, created_at) ascending order.
Earlier(a, b) ==
  \/ DateRank(a.date) < DateRank(b.date)
  \/ a.date = b.date /\ a.created_at < b.created_at

\* C13: the aggregation emits exactly one case per phone of the matched
\* events, and for every case there is one (date, created_at)-ascending
\* order of that phone's events such that name, page, follower, status and
\* reason are all those of the last event of the order, last_update_date is
\* its date, first_contact_date is the date of the first event,
\* total_events is the group size and history lists the group's events in
\* that order.
C13_SnapshotFromLastEvent ==
  IsCaseQuery =>
    LET out == cases[1]
        idx == MatchedBy(events, logQuery[1])
    IN /\ {out[i].phone : i \in 1..Len(out)} = {events[j].customer.phone : j \in idx}
       /\ \A i, j \in 1..Len(out) : i # j => out[i].phone # out[j].phone
       /\ \A i \in 1..Len(out) :
            LET c == out[i]
                G == {j \in idx : events[j].customer.phone = c.phone}
                n == Cardinality(G)
            IN \E o \in Orderings(G) :
                 LET l == events[o[n]] IN
                 /\ \A k \in 1..(n - 1) : ~Earlier(events[o[k + 1]], events[o[k]])
                 /\ c.name = l.customer.name
                 /\ c.page = l.page
                 /\ c.follower = l.follower
                 /\ c.current_reason_code = l.reason_code
                 /\ c.current_status = (IF l.reason_code # None THEN l.reason_code
                                        ELSE l.status_text)
                 /\ c.last_update_date = l.date
                 /\ c.first_contact_date = events[o[1]].date
                 /\ c.total_events = n
                 /\ c.history = [k \in 1..n |->
                      [date |-> events[o[k]].date,
                       status |-> IF events[o[k]].reason_code # None
                                  THEN events[o[k]].reason_code
                                  ELSE events[o[k]].status_text,
                       reason_code |-> events[o[k]].reason_code,
                       note |-> events[o[k]].note,
                       created_at |-> events[o[k]].created_at]]

\* The scenario: events (011, 2025-01-01, A) and (011, 2025-01-05, B) have
\* been aggregated to one case with first_contact_date 2025-01-01,
\* last_update_date 2025-01-05, current_status B and total_events 2.
C13_Witness ==
  /\ IsCaseQuery
  /\ events = <<P1, P2>>
  /\ Len(cases[1]) = 1
  /\ cases[1][1].phone = Some("011")
  /\ cases[1][1].first_contact_date = "2025-01-01"
  /\ cases[1][1].last_update_date = "2025-01-05"
  /\ cases[1][1].current_status = Some("B")
  /\ cases[1][1].total_events = 2

\* Every result the aggregation q may return on log.
PipelineOutputs(log, q) ==
  IF q.op = "getCasesByFollowerAndMonth"
  THEN buildCasesByFollowerAndMonthPipeline(log, q.follower, q.month)
  ELSE buildMonthlyCasesSummaryPipeline(log, IF q.month = "2025-01" THEN 1 ELSE 2)

\* The last event of the log matches the query handled last, carries a
\* phone that a matched earlier event carries too, and is strictly later
\* in (date, created_at) than every matched earlier event of that phone.
LaterEventAdded ==
  /\ IsCaseQuery
  /\ Len(events) >= 2
  /\ LET n == Len(events)
         e == events[n]
         idx == MatchedBy(events, logQuery[1])
         prior == {j \in idx : j < n /\ events[j].customer.phone = e.customer.phone}
     IN /\ n \in idx
        /\ e.customer.phone # None
        /\ prior # {}
        /\ \A j \in prior : Earlier(events[j], e)

C15_AggregationDeterministic ==
  [][(IsCaseQuery /\ IsCaseQuery' /\ logQuery' = logQuery /\ events' = events)
       => cases' = cases
    ]_vars

\* Two events of phone 011 with equal date and created_at arrived in the
\* order P2, P3, and the aggregation has returned a history that lists P3
\* before P2 and a current snapshot taken from P2.
C15_Witness ==
  /\ IsCaseQuery
  /\ events = <<P2, P3>>
  /\ Len(cases[1]) = 1
  /\ cases[1][1].history[1].note = P3.note
  /\ cases[1][1].history[2].note = P2.note
  /\ cases[1][1].current_status = P2.status_text

\* C16: the cases are returned by last_update_date descending: of two
\* adjacent cases the earlier one's last_update_date is not smaller.
C16_SortedByLastUpdate ==
  IsCaseQuery =>
    \A i \in 1..(Len(cases[1]) - 1) :
      DateRank(cases[1][i].last_update_date) >= DateRank(cases[1][i + 1].last_update_date)

\* Phone 011 arrived first with its only event on 2025-01-01, phone 012
\* second with an event on 2025-01-05: the result lists 012 before 011.
C16_Witness ==
  /\ IsCaseQuery
  /\ events = <<P1, P4>>
  /\ Len(cases[1]) = 2
  /\ cases[1][1].phone = Some("012")
  /\ cases[1][1].last_update_date = "2025-01-05"
  /\ cases[1][2].phone = Some("011")
  /\ cases[1][2].last_update_date = "2025-01-01"

\* C17: the event log is append-only: every step (message ingestion with
\* update enrichment, an entry-flow commit, a customer-list or report read,
\* a case aggregation) leaves every persisted event in its place with its
\* field values, and a step that answers a read leaves the log as it was.
C17_LogAppendOnly ==
  [][/\ Len(events') >= Len(events)
     /\ SubSeq(events', 1, Len(events)) = events
     /\ (cases' # None /\ <<logQuery', cases'>> # <<logQuery, cases>>) => events' = events
    ]_vars

\* An update for phone 011 was ingested into a log of two sampled events:
\* the lookup ran, the enriched event was appended as the third, and the
\* two earlier events are the documents they were.
C17_Witness ==
  /\ build = "log"
  /\ last.op = "handleMessage"
  /\ last.lookups = <<"011">>
  /\ last.audits = <<"message_received", "message_parsed", "lead_events_saved">>
  /\ Len(events) = 3
  /\ events[1] = P1 /\ events[2] = P8
  /\ events[3].follower = P8.follower
  /\ events[3].status_text = Some("E")

\* C18: parseMessage never raises: for every text, with or without an API
\* key, and whatever the completion service does (timeout, transport
\* error, a response that is not ok, an unreadable body, missing content,
\* content that is no string, text without JSON, malformed JSON, JSON of an
\* unexpected shape), it returns a ParseResult: the ignored marker or a
\* non-empty list of events.
C18_ParseMessageNeverRaises ==
  pmResult # None =>
    /\ ~pmResult[1].threw
    /\ pmResult[1].result # None
    /\ \/ pmResult[1].result[1] = Ignored
       \/ /\ ~pmResult[1].result[1].ignored
          /\ pmResult[1].result[1].events # <<>>

\* The service answered the one request with a content that is no string
\* (text.trim() raises inside callModel), and parseMessage returned the
\* event its own rules found in the text.
C18_Witness ==
  /\ pmResult # None
  /\ pmInput[1].message = M_lead
  /\ Len(pmResult[1].calls) = 1
  /\ pmResult[1].calls[1].response.kind = "ok"
  /\ pmResult[1].calls[1].response.content = Some(Content("nonstring", None))
  /\ ~pmResult[1].threw
  /\ pmResult[1].result = Some(Events(extractLeadEvents(M_lead, "7", "gpt-4o-mini")))

\* The requests calls of one parse follow the retry rule for the
\* configured model.
FollowsRetryRule(calls, configured) ==
  /\ Len(calls) <= 2
  /\ Len(calls) >= 1 => calls[1].model = configured
  /\ Len(calls) = 2 =>
       /\ calls[1].response.kind = "http"
       /\ calls[1].response.status = 400
       /\ calls[1].response.invalidModelText
       /\ calls[1].model # defaultModel
       /\ calls[2].model = defaultModel

\* C19: one message makes at most two requests to the completion service,
\* in the free-text translator and in the header parser alike; a second
\* request is made only when the first, for a configured model other than
\* the default, was answered 400 with 'invalid model', and it asks for the
\* default model; any other failure of the first request and every failure
\* of the second is followed by no request; without an API key no request
\* is made.
C19_AtMostOneRetry ==
  /\ pmResult # None =>
       /\ FollowsRetryRule(pmResult[1].calls, pmInput[1].configured)
       /\ ~apiKey => pmResult[1].calls = <<>>
  /\ hfResult # None =>
       /\ FollowsRetryRule(hfResult[1].calls, hfInput[1].configured)
       /\ ~apiKey => hfResult[1].calls = <<>>

\* The configured model was answered 'invalid model', the default model
\* was asked and answered 'invalid model' too, and no third request
\* followed.
C19_Witness ==
  /\ pmResult # None
  /\ Len(pmResult[1].calls) = 2
  /\ pmResult[1].calls[1].model = "gpt-x"
  /\ pmResult[1].calls[1].response = R_invalid_model
  /\ pmResult[1].calls[2].model = defaultModel
  /\ pmResult[1].calls[2].response = R_invalid_model

\* The five required keys.
RequiredKeys == {K_DATE, K_NAME, K_PHONE, K_PAGE, K_FOLLOWER}

\* s is a calendar date written YYYY-MM-DD.
IsIsoCalendarDate(s) ==
  /\ IsDatePattern(s)
  /\ DecimalValue(SubSeq(s, 6, 7)) \in 1..12
  /\ DecimalValue(SubSeq(s, 9, 10)) \in 1..31

\* The block with these lines misses a required key, repeats a key, has an
\* unknown key, or has a date that is no ISO calendar date.
Malformed(lines) ==
  \/ \E k \in RequiredKeys : \A i \in 1..Len(lines) : lines[i][1] # k
  \/ \E i, j \in 1..Len(lines) : i < j /\ lines[i][1] = lines[j][1]
  \/ \E i \in 1..Len(lines) : lines[i][1] \notin RequiredKeys
  \/ \E i \in 1..Len(lines) : lines[i][1] = K_DATE /\ ~IsIsoCalendarDate(lines[i][2])

\* The block's lines are exactly the five keys, each once with a non-empty
\* value, the date an ISO calendar date.
WellFormed(lines) ==
  /\ Len(lines) = 5
  /\ ~Malformed(lines)
  /\ \A i \in 1..Len(lines) : Trim(lines[i][2]) # <<>>

\* C20: with or without an API key and whatever the completion service
\* answers, parse rejects a block that misses one of the five required
\* keys, repeats a key, has an unknown key or a date that is no ISO
\* calendar date, and accepts a block of the marker and exactly the five
\* keys, each once with a non-empty value, in any order.
C20_HeaderGrammarDecides ==
  hfResult # None =>
    LET lines == hfInput[1].lines
        r == hfResult[1]
    IN /\ Malformed(lines) => ~r.result.valid
       /\ WellFormed(lines) => ~r.threw /\ r.result.valid

\* A block without its FOLLOWER line was parsed with an API key set, the
\* service answered valid with five fields, and parse accepted the block
\* with the service's fields.
C20_Witness ==
  /\ hfResult # None
  /\ apiKey
  /\ hfInput[1].lines = Without(FiveLines, 5)
  /\ Len(hfResult[1].calls) = 1
  /\ hfResult[1].calls[1].response.kind = "ok"
  /\ ~hfResult[1].threw
  /\ hfResult[1].result.valid
  /\ hfResult[1].result.data[1].follower = V_follower

\* C21: HeaderFormParser.parse never throws: for every block, with or
\* without an API key, and every answer of the completion service (valid
\* with fields missing, null or not strings included) it returns a result
\* that is valid with data or invalid with an error.
C21_HeaderParseNeverThrows ==
  hfResult # None =>
    /\ ~hfResult[1].threw
    /\ hfResult[1].result.valid => hfResult[1].result.data # None
    /\ ~hfResult[1].result.valid => hfResult[1].result.error # ""

\* A block of the five lines was parsed with an API key set, the service
\* answered valid with a numeric phone, and parse raised.
C21_Witness ==
  /\ hfResult # None
  /\ apiKey
  /\ hfInput[1].lines = FiveLines
  /\ Len(hfResult[1].calls) = 1
  /\ hfResult[1].calls[1].response.content =
       Some(Content("bare", Some(JObject(<< <<"valid", JTrue>>,
                                            <<"data", J_header_numeric_phone>> >>))))
  /\ hfResult[1].threw

\* The documents of phone in log that no other document of that phone
\* follows in (date, created_at) order.
LatestOfPhone(log, phone) ==
  {j \in 1..Len(log) :
     /\ log[j].customer.phone = phone
     /\ \A k \in 1..Len(log) :
          log[k].customer.phone = phone => ~Earlier(log[j], log[k])}

\* The incoming value unless it is a gap, else the historical one: under
\* rule "null" a gap is null, under rule "empty" null or the empty string.
FillGap(rule, incoming, historical) ==
  IF incoming = None \/ (rule = "empty" /\ incoming = Some(""))
  THEN historical ELSE incoming

\* Message ingestion ran to its end on parseResult and saved, for the i-th
\* parsed event e flagged as update whose phone has a prior event, a
\* document whose name, page and follower are FillGap(rule, incoming, h's)
\* for the latest prior event h, and which has e's own status_text,
\* reason_code (none), note (none), phone and date.
EnrichedAs(parseResult, picks, rule) ==
  handleMessage(parseResult, picks, 0, 0, FALSE) =>
    \A i \in 1..Len(parseResult.events) :
      LET e == parseResult.events[i] IN
      (e.is_update /\ e.customer.phone # None
         /\ LatestOfPhone(events, e.customer.phone) # {})
      => /\ Len(events') = Len(events) + Len(parseResult.events)
         /\ \E j \in LatestOfPhone(events, e.customer.phone) :
              LET h == events[j]
                  saved == events'[Len(events) + i]
              IN /\ saved.customer.name = FillGap(rule, e.customer.name, h.customer.name)
                 /\ saved.page = FillGap(rule, e.page, h.page)
                 /\ saved.follower = FillGap(rule, e.follower, h.follower)
                 /\ saved.status_text = e.status_text
                 /\ saved.reason_code = None
                 /\ saved.note = None
                 /\ saved.customer.phone = e.customer.phone
                 /\ saved.date = e.date

C24_FailuresCaughtAndAudited ==
  [][\A parseResult \in ParseResults :
       \A picks \in LookupPicks(events, parseResult.events),
          failAt \in HandleFailures(parseResult) \ {0},
          written \in 0..Len(parseResult.events),
          errAuditFails \in BOOLEAN :
         handleMessage(parseResult, picks, failAt, written, errAuditFails) =>
           /\ ~last'.threw
           /\ Len(last'.audits) >= 1
           /\ last'.audits[Len(last'.audits)] = "processing_error"
           /\ Cardinality({k \in 1..Len(last'.audits) :
                             last'.audits[k] = "processing_error"}) = 1
    ]_vars

\* The first audit write of a message failed and so did the audit write of
\* the catch block: handleMessage ended by an exception with no audit entry
\* written and the log as it was.
C24_Witness ==
  /\ build = "log"
  /\ last.op = "handleMessage"
  /\ last.threw
  /\ last.audits = <<>>
  /\ last.lookups = <<>>
  /\ Len(events) = 1


\* The customer-list flow of user u waits for the month in chat c and has
\* not expired.
AwaitingMonth(u, c) ==
  /\ pendingCustomersRequest[u] # None
  /\ pendingCustomersRequest[u][1].step = "awaiting_month"
  /\ pendingCustomersRequest[u][1].chatId = c
  /\ pendingCustomersRequest[u][1].expiresAt >= now

\* What a reply to the month prompt does when the replies of the set
\* accepted are the months: each of them runs one lookup and ends the flow,
\* every other reply not opening with "/" gets the invalid-month prompt,
\* leaves the pending state (step, follower, expiry) and the cooldown as
\* they were and runs no lookup.
MonthStep(accepted) ==
  \A u \in Users, c \in Chats, text \in CustomersOtherTexts, lookup \in LookupResults :
    (customersText(u, c, text, lookup) /\ AwaitingMonth(u, c) /\ ~StartsWith(text, <<"/">>))
    => IF text \in accepted
       THEN /\ Len(last'.lookups) = 1
            /\ pendingCustomersRequest'[u] = None
       ELSE /\ last'.replies = <<Reply("invalid_month")>>
            /\ last'.lookups = <<>>
            /\ pendingCustomersRequest' = pendingCustomersRequest
            /\ lastRequestAt' = lastRequestAt

\* C25 as stated: at awaiting_month the replies that run the lookup are
\* the literal "current" and the YYYY-MM tokens; every other reply
\* re-prompts with the pending state unchanged, no lookup and no cooldown.
C25_MonthStepAsStated ==
  [][MonthStep({t \in CustomersOtherTexts :
                  t = <<"c","u","r","r","e","n","t">> \/ IsMonthPattern(t)})]_vars

\* C25 amended: the replies that run the lookup are those that, with
\* surrounding blanks removed, are "current" in any letter case or a
\* YYYY-MM token; every other reply re-prompts with the pending state
\* unchanged, no lookup and no cooldown.
C25_MonthStepTrimmedAnyCase ==
  [][MonthStep({t \in CustomersOtherTexts :
                  \/ ToLowerCase(Trim(t)) = <<"c","u","r","r","e","n","t">>
                  \/ IsMonthPattern(Trim(t))})]_vars

\* The reply "Jan" to the month prompt was answered by the invalid-month
\* prompt; the flow still waits for the month with the follower it had and
\* the cooldown is not armed.
C25_Witness ==
  /\ build = "customers"
  /\ last.op = "customersText"
  /\ last.replies = <<Reply("invalid_month")>>
  /\ last.lookups = <<>>
  /\ pendingCustomersRequest[1] # None
  /\ pendingCustomersRequest[1][1].step = "awaiting_month"
  /\ pendingCustomersRequest[1][1].follower = Some(<<"S","r","e","y">>)
  /\ lastRequestAt[1] = None


\* C26: a customer-list query that ran and matched no event is answered by
\* the one empty-result message and by no failure message; the pending
\* state of the user is deleted, the handler reports the text as handled
\* and nothing is thrown.
C26_EmptyResultCompletes ==
  [][\A u \in Users, c \in Chats, text \in CustomersOtherTexts :
       (customersText(u, c, text, "empty") /\ last'.lookups # <<>>)
       => /\ last'.replies = <<Reply("no_cases")>>
          /\ pendingCustomersRequest'[u] = None
          /\ ~last'.threw
          /\ last'.ret = "true"
          /\ ~last'.forwarded
    ]_vars

\* The list of follower Srey for the month 2025-01 was asked for and no
\* event matched: the empty-result message was sent and the flow is over.
C26_Witness ==
  /\ build = "customers"
  /\ last.op = "customersText"
  /\ last.lookups = <<Lookup("customers", 0, <<"S","r","e","y">>, T_month)>>
  /\ last.replies = <<Reply("no_cases")>>
  /\ pendingCustomersRequest[1] = None
  /\ lastRequestAt[1] # None


\* The range prompt of user u is pending in chat c and has not expired.
RangePending(u, c) ==
  /\ pendingReportRange[u] # None
  /\ pendingReportRange[u][1].chatId = c
  /\ pendingReportRange[u][1].expiresAt >= now

\* A date token: YYYY-MM-DD, alone or with THH:MM attached.
IsDateToken(token) ==
  \/ IsDatePattern(token)
  \/ /\ Len(token) = 16
     /\ IsDatePattern(SubSeq(token, 1, 10))
     /\ token[11] = "T"
     /\ IsTimePattern(SubSeq(token, 12, 16))

\* tokens is, token by token, of the given shape of dates ("D") and times
\* of day ("T").
HasShape(tokens, shape) ==
  /\ Len(tokens) = Len(shape)
  /\ \A i \in 1..Len(tokens) :
       IF shape[i] = "D" THEN IsDateToken(tokens[i]) ELSE IsTimePattern(tokens[i])

\* The replies the range prompt documents: a number of days, or one or two
\* date tokens, each optionally followed by an HH:MM token.
RangeReplyGrammar(text) ==
  \/ NumberTrunc(text) # None
  \/ \E shape \in { <<"D">>, <<"D", "T">>, <<"D", "D">>, <<"D", "T", "D">>,
                    <<"D", "D", "T">>, <<"D", "T", "D", "T">> } :
       HasShape(SplitWhitespace(text), shape)

\* The sampled replies outside that grammar that are not commands.
RangeOffGrammar ==
  {t \in RangeOtherTexts : ~StartsWith(Trim(t), <<"/">>) /\ ~RangeReplyGrammar(Trim(t))}

\* C27: while a range prompt is pending, every reply that is neither a
\* day-count nor one or two date tokens (each optionally followed by a time
\* token) is answered by the invalid-input prompt, leaves the pending state
\* and the cooldown as they were and runs no lookup.
C27_OnlyGrammarRepliesAccepted ==
  [][\A u \in Users, c \in Chats, text \in RangeOtherTexts, lookup \in LookupResults :
       (/\ RangePending(u, c)
        /\ text \in RangeOffGrammar
        /\ rangeText(u, c, text, lookup))
       => /\ last'.replies = <<Reply("invalid_input")>>
          /\ last'.lookups = <<>>
          /\ pendingReportRange' = pendingReportRange
          /\ lastReportAt' = lastReportAt
    ]_vars

\* The reply "2025-12-18 soon" to the range prompt of /report ran the
\* lookup of the single day 2025-12-18, ended the flow and armed the
\* cooldown.
C27_Witness ==
  /\ build = "range"
  /\ last.op = "rangeText"
  /\ last.lookups = <<Lookup("report", 0, T_day2, T_day2)>>
  /\ pendingReportRange[1] = None
  /\ lastReportAt[1] # None


\* The sampled texts that carry a number of days.
DayTexts == {T_report_7, T_follow_40, T_report_frac, T_follow_neg, T_7, T_45_9, T_0_5}

DayReportTexts == DayTexts \cap ReportTexts
DayFollowTexts == DayTexts \cap FollowTexts
DayReplyTexts == DayTexts \cap RangeOtherTexts

\* The number of days the report of each is to cover: the number with its
\* fraction dropped, 1 when that is below 1 and 30 when it is above 30.
ExpectedDays ==
  [t \in DayTexts |->
     IF t \in {T_report_7, T_7} THEN 7
     ELSE IF t \in {T_follow_40, T_45_9} THEN 30
     ELSE 1]

\* The one lookup of the step just taken is by day-count, for days days.
LookedUpDays(days) ==
  /\ Len(last'.lookups) = 1
  /\ last'.lookups[1].a = <<>>
  /\ last'.lookups[1].days = days

\* C28: every lookup by day-count, whether asked by /report N, by /follow N
\* or by a reply to the range prompt, is made for the given number
\* truncated and clamped into 1..30; no lookup by day-count is ever made
\* for a number outside 1..30.
C28_DayCountClamped ==
  [][/\ \A i \in 1..Len(last'.lookups) :
          (last'.lookups[i].kind \in {"report", "follow"} /\ last'.lookups[i].a = <<>>)
          => last'.lookups[i].days \in 1..30
     /\ (build = "range" /\ last'.lookups # <<>> /\ last'.op = "report")
        => \A u \in Users, c \in Chats, text \in DayReportTexts,
              lookup \in LookupResults :
             reportCommand(u, c, text, lookup) => LookedUpDays(ExpectedDays[text])
     /\ (build = "range" /\ last'.lookups # <<>> /\ last'.op = "follow")
        => \A u \in Users, c \in Chats, text \in DayFollowTexts,
              lookup \in LookupResults :
             followCommand(u, c, text, lookup) => LookedUpDays(ExpectedDays[text])
     /\ (build = "range" /\ last'.lookups # <<>> /\ last'.op = "rangeText")
        => \A u \in Users, c \in Chats, text \in DayReplyTexts,
              lookup \in LookupResults :
             rangeText(u, c, text, lookup) => LookedUpDays(ExpectedDays[text])
    ]_vars

\* /follow -3 ran the lookup of one day and armed the cooldown.
C28_Witness ==
  /\ build = "range"
  /\ last.op = "follow"
  /\ last.lookups = <<Lookup("follow", 1, <<>>, <<>>)>>
  /\ lastReportAt[1] = Some(now)
  /\ pendingReportRange[1] = None


\* C29: when a user who has an unexpired pending entry or customer-list
\* request of chat A sends a text in another chat B, the pending state of
\* chat A is still there, unchanged, once the text is handled.
C29_OtherChatLeavesState ==
  [][\A u \in Users, c \in Chats :
       /\ ( /\ last'.op = "handlePending"
            /\ pendingEntries[u] # None
            /\ pendingEntries[u][1].chatId # c
            /\ pendingEntries[u][1].expiresAt >= now
            /\ \E text \in EntryTexts, mid \in MsgIds, failAt \in 0..2 :
                 handlePending(u, c, text, mid, failAt) )
          => pendingEntries'[u] = pendingEntries[u]
       /\ ( /\ last'.op = "customersText"
            /\ pendingCustomersRequest[u] # None
            /\ pendingCustomersRequest[u][1].chatId # c
            /\ pendingCustomersRequest[u][1].expiresAt >= now
            /\ \E text \in CustomersOtherTexts, lookup \in LookupResults :
                 customersText(u, c, text, lookup) )
          => pendingCustomersRequest'[u] = pendingCustomersRequest[u]
    ]_vars

\* A customer-list request of one chat that had not expired was deleted by
\* a text of the same user in the other chat: the user has no request left
\* to continue.
C29_Witness ==
  /\ build = "customers"
  /\ last.op = "customersText"
  /\ last.stale = "chat"
  /\ last.forwarded
  /\ pendingCustomersRequest[1] = None
  /\ lastRequestAt[1] = None


\* What one step may do to the pending state of a flow with time to live
\* ttl: a state that was there and still is keeps its expiry, unless one of
\* the flow's starting messages (starters) has put a new state in its
\* place; a state that appears expires ttl after the message creating it.
ExpiryFixed(before, after, ttl, starters) ==
  /\ (before # None /\ after # None)
     => \/ after[1].expiresAt = before[1].expiresAt
        \/ last'.op \in starters /\ after[1].expiresAt = now + ttl
  /\ (before = None /\ after # None)
     => last'.op \in starters /\ after[1].expiresAt = now + ttl

\* C30: the expiry of a pending state is set when the starting message
\* creates it, ttl (5 minutes) ahead, and no later step changes it: not the
\* advance from awaiting_reason to awaiting_note or from awaiting_follower
\* to awaiting_month, not a re-prompt; an entry is committed and a customer
\* lookup is run only while the clock has not passed that expiry.
C30_ExpiryNeverExtended ==
  [][\A u \in Users :
       /\ ExpiryFixed(pendingEntries[u], pendingEntries'[u], ttlMs, {"tryStartFromHeader"})
       /\ ExpiryFixed(pendingCustomersRequest[u], pendingCustomersRequest'[u],
                      customersTimeoutMs, {"customersCommand"})
       /\ ExpiryFixed(pendingReportRange[u], pendingReportRange'[u],
                      rangeTimeoutMs, {"report", "follow"})
       /\ (last'.op = "handlePending" /\ events' # events)
          => pendingEntries[u] # None /\ now <= pendingEntries[u][1].expiresAt
       /\ (/\ pendingCustomersRequest[u] # None
           /\ pendingCustomersRequest'[u] = None
           /\ last'.op = "customersText" /\ last'.lookups # <<>>)
          => now <= pendingCustomersRequest[u][1].expiresAt
       /\ ttlMs = 5 * 60 * 1000 /\ customersTimeoutMs = 5 * 60 * 1000
    ]_vars

\* A customer-list request created at the start time was advanced to
\* awaiting_month later on: its expiry is still the start time plus the
\* time to live.
C30_Witness ==
  /\ build = "customers"
  /\ last.op = "customersText"
  /\ now > StartTime
  /\ pendingCustomersRequest[1] # None
  /\ pendingCustomersRequest[1][1].step = "awaiting_month"
  /\ pendingCustomersRequest[1][1].expiresAt = StartTime + customersTimeoutMs
  /\ last.replies = <<Reply("month_prompt")>>


\* The header data of the completion the last request of calls was answered
\* with, when that completion is a JSON object saying valid with an object
\* as data: a set of at most one element.
AiValidData(calls) ==
  IF calls = <<>> THEN {}
  ELSE LET c == calls[Len(calls)].response.content IN
       IF c = None THEN {}
       ELSE IF c[1].form = "nonstring" \/ c[1].json = None THEN {}
       ELSE LET j == c[1].json[1] IN
            IF /\ j[1] = "object"
               /\ Field(j, "valid") = Some(JTrue)
               /\ Field(j, "data") # None
               /\ Field(j, "data")[1][1] = "object"
            THEN {Field(j, "data")[1]}
            ELSE {}

\* The required-field rule on the data of a completion: the five fields
\* are strings that are not blank, the date a YYYY-MM-DD pattern.
PassesValidation(d) ==
  /\ \A i \in 1..5 :
       /\ StringField(d, HeaderKeys[i]) # None
       /\ Trim(StringField(d, HeaderKeys[i])[1]) # <<>>
  /\ IsDatePattern(Trim(StringField(d, "date")[1]))

\* C31: HeaderFormParser.parse returns the service's data as valid only
\* when that data passes the required-field validation; when no request
\* was made, the service gave no verdict, said invalid, or its data fails
\* the validation, parse returns what the line-grammar parser returns for
\* the block: valid with the locally parsed data, or invalid.
C31_AiAcceptedOnlyIfValidated ==
  hfResult # None =>
    LET r == hfResult[1]
        local == parseLocally(Trim(RenderBlock(hfInput[1].lines)))
        good == {d \in AiValidData(r.calls) : PassesValidation(d)}
    IN IF apiKey /\ good # {}
       THEN /\ ~r.threw
            /\ r.result.valid
            /\ \E d \in good :
                 r.result.data =
                   Some([k \in {"date", "name", "phone", "page", "follower"} |->
                           Trim(StringField(d, k)[1])])
       ELSE /\ ~r.threw
            /\ r.result.valid = local.valid
            /\ r.result.data = local.data

\* A block of the five lines in reverse order, which the line-grammar
\* parser accepts, was parsed with an API key set; the service said valid
\* with a phone that is a number, and parse raised where the local result
\* was due.
C31_Witness ==
  /\ hfResult # None
  /\ apiKey
  /\ hfInput[1].lines = Reverse(FiveLines)
  /\ parseLocally(Trim(RenderBlock(hfInput[1].lines))).valid
  /\ AiValidData(hfResult[1].calls) = {J_header_numeric_phone}
  /\ hfResult[1].threw


\* The JSON payload the last request of calls was answered with: a set of
\* at most one element, empty when the request failed (abort, transport
\* error, status not ok, unreadable body), the content is missing or no
\* string, holds no JSON or JSON that does not parse.
AiPayload(calls) ==
  IF calls = <<>> THEN {}
  ELSE LET response == calls[Len(calls)].response IN
       IF response.kind # "ok" \/ response.content = None THEN {}
       ELSE LET c == response.content[1] IN
            IF c.form \in {"nonstring", "plain"} \/ c.json = None THEN {}
            ELSE {c.json[1]}

\* The payloads the translator takes as a result: an array, or the ignored
\* marker.
AiSucceeded(payload) ==
  \/ payload[1] = "array"
  \/ payload[1] = "object" /\ Field(payload, "ignored") = Some(JTrue)

\* The message passes the pre-filter of parseMessage.
PassesPreFilter(message) ==
  Trim(message) # <<>> /\ ~isVagueMessage(Trim(message))

\* C32: for a message that passed the pre-filter, when the AI path gave no
\* result (no key, aborted or failed request, status not ok, no content, no
\* JSON, JSON that does not parse, a payload that is neither an array nor
\* the ignored marker) parseMessage returns what extractLeadEvents finds in
\* the message, ignored when that is nothing; when the AI path gave an
\* array or the marker, parseMessage returns the AI result.
C32_FallbackIffAiFails ==
  (pmResult # None /\ PassesPreFilter(pmInput[1].message)) =>
    LET r == pmResult[1]
        ok == {p \in AiPayload(r.calls) : AiSucceeded(p)}
        found == extractLeadEvents(Trim(pmInput[1].message), "7", "gpt-4o-mini")
    IN /\ ~r.threw
       /\ IF apiKey /\ ok # {}
          THEN \E p \in ok : r.result = normalizePayload(p, "7", "gpt-4o-mini")
          ELSE r.result = Some(IF found = <<>> THEN Ignored ELSE Events(found))

\* The service answered the request for the lead message with a JSON
\* object that is neither an array nor the marker, and parseMessage
\* returned the event its own rules found in the text.
C32_Witness ==
  /\ pmResult # None
  /\ apiKey
  /\ pmInput[1].message = M_lead
  /\ AiPayload(pmResult[1].calls) = {JObject(<< <<"ignored", JString(V_name)>> >>)}
  /\ pmResult[1].result = Some(Events(extractLeadEvents(M_lead, "7", "gpt-4o-mini")))
  /\ pmResult[1].result[1].events[1].customer.phone # None


\* The items of an array payload that are objects without a customer
\* object and carry name and phone as strings beside the other fields.
FlatItems(payload) ==
  IF payload[1] # "array" THEN {}
  ELSE {i \in 1..Len(payload[2]) :
          LET item == payload[2][i] IN
          /\ item[1] = "object"
          /\ ~(Truthy(Field(item, "customer")) /\ IsObjectLike(Field(item, "customer")[1]))
          /\ StringField(item, "name") # None
          /\ StringField(item, "phone") # None}

\* C33: an object of the AI reply that lacks the nested customer object
\* and carries the customer's name and phone as flat fields is normalized
\* into an event whose customer name and phone hold those flat values.
C33_FlatFieldsReconstructed ==
  (pmResult # None /\ apiKey) =>
    \A p \in AiPayload(pmResult[1].calls) :
      \A i \in FlatItems(p) :
        /\ ~pmResult[1].threw
        /\ pmResult[1].result # None
        /\ ~pmResult[1].result[1].ignored
        /\ \E k \in 1..Len(pmResult[1].result[1].events) :
             LET e == pmResult[1].result[1].events[k] IN
             /\ e.customer.name = StringField(p[2][i], "name")
             /\ e.customer.phone = StringField(p[2][i], "phone")

\* The service answered with one event in the flat shape and parseMessage
\* returned one event whose customer has neither name nor phone.
C33_Witness ==
  /\ pmResult # None
  /\ apiKey
  /\ AiPayload(pmResult[1].calls) = {JArray(<<J_legacy>>)}
  /\ FlatItems(JArray(<<J_legacy>>)) = {1}
  /\ ~pmResult[1].result[1].ignored
  /\ Len(pmResult[1].result[1].events) = 1
  /\ pmResult[1].result[1].events[1].customer = [name |-> None, phone |-> None]
  /\ pmResult[1].result[1].events[1].page = Some(V_page)


\* The array has no item normalizeLeadEvent can use (no item that is an
\* object).
NoUsableItem(payload) ==
  /\ payload[1] = "array"
  /\ \A i \in 1..Len(payload[2]) : ~IsObjectLike(payload[2][i])

\* C34: parseMessage never returns an empty event list: a result that is
\* not the ignored marker has at least one event, and an AI reply that is
\* an empty array, or an array without a usable object, gives the ignored
\* marker.
C34_NoEmptyEventList ==
  pmResult # None =>
    LET r == pmResult[1] IN
    /\ r.result # None
    /\ r.result[1].ignored <=> (r.result[1].events = <<>>)
    /\ apiKey =>
         \A p \in AiPayload(r.calls) : NoUsableItem(p) => r.result = Some(Ignored)

\* For the lead message, in which the fallback rules would find an event,
\* the service answered with an array of null and a number, and
\* parseMessage returned the ignored marker.
C34_Witness ==
  /\ pmResult # None
  /\ apiKey
  /\ pmInput[1].message = M_lead
  /\ extractLeadEvents(M_lead, "7", "gpt-4o-mini") # <<>>
  /\ AiPayload(pmResult[1].calls) = {JArray(<<JNull, JNumber>>)}
  /\ pmResult[1].result = Some(Ignored)


\* The places of a message where a phone starts: a run of eight or more
\* digits between word boundaries.
PhoneStarts(message) ==
  {i \in 1..Len(message) :
     /\ message[i] \in Digits
     /\ (i = 1 \/ message[i - 1] \notin WordChars)
     /\ \E j \in (i + 7)..Len(message) :
          /\ \A k \in i..j : message[k] \in Digits
          /\ (j = Len(message) \/ message[j + 1] \notin WordChars)}

\* The places where a name starts: a capital letter after a word
\* boundary, followed by lower-case letters up to a word boundary.
NameStarts(message) ==
  {i \in 1..Len(message) :
     /\ IsUpperLetter(message[i])
     /\ (i = 1 \/ message[i - 1] \notin WordChars)
     /\ \E j \in (i + 1)..Len(message) :
          /\ \A k \in (i + 1)..j : IsLowerLetter(message[k])
          /\ (j = Len(message) \/ message[j + 1] \notin WordChars)}

\* The AI path gave parseMessage no result, so its own rules were used.
FallbackConsulted ==
  /\ pmResult # None
  /\ PassesPreFilter(pmInput[1].message)
  /\ ~apiKey \/ \A p \in AiPayload(pmResult[1].calls) : ~AiSucceeded(p)

\* C35: the fallback extractor gives exactly one event when the message
\* holds a name or a phone of at least eight digits, and the ignored marker
\* otherwise; it never gives more than one event, whatever the number of
\* phones and names in the message.
C35_FallbackAtMostOneEvent ==
  FallbackConsulted =>
    LET text == Trim(pmInput[1].message)
        r == pmResult[1].result[1]
    IN IF PhoneStarts(text) # {} \/ NameStarts(text) # {}
       THEN /\ ~r.ignored
            /\ Len(r.events) = 1
            /\ r.events[1].customer.phone # None <=> PhoneStarts(text) # {}
            /\ r.events[1].customer.name # None <=> NameStarts(text) # {}
       ELSE r = Ignored

\* Without a key, a message of two names and two phones gave one event,
\* with the first name and the first phone.
C35_Witness ==
  /\ FallbackConsulted
  /\ pmInput[1].message = M_two
  /\ Cardinality(PhoneStarts(M_two)) = 2
  /\ Cardinality(NameStarts(M_two)) = 2
  /\ Len(pmResult[1].result[1].events) = 1
  /\ pmResult[1].result[1].events[1].customer.phone = Some(SubSeq(M_two, 6, 14))
  /\ pmResult[1].result[1].events[1].customer.name = Some(SubSeq(M_two, 1, 4))


\* event.is_update as enrichWithUpdateDetection reads it: a missing
\* property is undefined, which is falsy.
IsUpdate(event) == "is_update" \in DOMAIN event /\ event.is_update

\* The items of an array payload that are objects with is_update = true.
UpdateItems(payload) ==
  IF payload[1] # "array" THEN {}
  ELSE {i \in 1..Len(payload[2]) :
          payload[2][i][1] = "object" /\ Field(payload[2][i], "is_update") = Some(JTrue)}

\* C36: the is_update flag set by the AI survives normalization: an object
\* of the AI reply with is_update = true becomes an event that
\* enrichWithUpdateDetection reads as an update.
C36_IsUpdateSurvivesNormalization ==
  (pmResult # None /\ apiKey) =>
    \A p \in AiPayload(pmResult[1].calls) :
      \A i \in UpdateItems(p) :
        /\ pmResult[1].result # None
        /\ ~pmResult[1].result[1].ignored
        /\ \E k \in 1..Len(pmResult[1].result[1].events) :
             LET e == pmResult[1].result[1].events[k] IN
             /\ IsUpdate(e)
             /\ e.customer.phone = StringField(Field(p[2][i], "customer")[1], "phone")

\* The service answered with one event flagged as an update, with a phone,
\* and parseMessage returned that event without the flag.
C36_Witness ==
  /\ pmResult # None
  /\ apiKey
  /\ AiPayload(pmResult[1].calls) = {JArray(<<J_event>>)}
  /\ UpdateItems(JArray(<<J_event>>)) = {1}
  /\ Len(pmResult[1].result[1].events) = 1
  /\ pmResult[1].result[1].events[1].customer.phone = Some(V_phone)
  /\ ~IsUpdate(pmResult[1].result[1].events[1])


\* Event i of the log comes before event j in the order date ascending,
\* then created_at ascending, then arrival (the position in the log).
BeforeInGroup(log, i, j) ==
  \/ Earlier(log[i], log[j])
  \/ /\ log[i].date = log[j].date
     /\ log[i].created_at = log[j].created_at
     /\ i < j

\* C37: within a phone's group the events are ordered by date, then
\* created_at, then arrival: the case's snapshot is that of the group's
\* last event in this order (of two events with equal date the one
\* created later, of two events with equal date and created_at the one
\* that arrived later) and the history lists the group in this order.
C37_GroupOrderedByDateCreatedArrival ==
  IsCaseQuery =>
    LET out == cases[1]
        idx == MatchedBy(events, logQuery[1])
    IN \A i \in 1..Len(out) :
         LET c == out[i]
             G == {j \in idx : events[j].customer.phone = c.phone}
             l == CHOOSE j \in G : \A k \in G \ {j} : BeforeInGroup(events, k, j)
         IN /\ c.name = events[l].customer.name
            /\ c.page = events[l].page
            /\ c.follower = events[l].follower
            /\ c.current_reason_code = events[l].reason_code
            /\ c.current_status = IfNull(events[l].reason_code, events[l].status_text)
            /\ c.last_update_date = events[l].date
            /\ \A a, b \in 1..Len(c.history) :
                 a < b =>
                   \E j, k \in G :
                     /\ BeforeInGroup(events, j, k)
                     /\ c.history[a] = HistoryEntry(events[j])
                     /\ c.history[b] = HistoryEntry(events[k])

\* P2 and P3 (phone 011, equal date and created_at) arrived in this order
\* and the monthly aggregation returned a case whose name is that of P2,
\* the event that arrived first.
C37_Witness ==
  /\ IsCaseQuery
  /\ events = <<P2, P3>>
  /\ P2.date = P3.date /\ P2.created_at = P3.created_at
  /\ Len(cases[1]) = 1
  /\ cases[1][1].name = P2.customer.name
  /\ cases[1][1].name # P3.customer.name

\* The part of C37 that does not depend on arrival: of the events of a
\* group, one that is strictly later in (date, created_at) than all others
\* supplies the snapshot.
StrictlyLatestSuppliesSnapshot ==
  IsCaseQuery =>
    LET out == cases[1]
        idx == MatchedBy(events, logQuery[1])
    IN \A i \in 1..Len(out) :
         LET c == out[i]
             G == {j \in idx : events[j].customer.phone = c.phone}
         IN \A l \in G :
              (\A k \in G \ {l} : Earlier(events[k], events[l])) =>
                /\ c.name = events[l].customer.name
                /\ c.page = events[l].page
                /\ c.current_status = IfNull(events[l].reason_code, events[l].status_text)
                /\ c.last_update_date = events[l].date

\* Two events of one phone and one date, created at different times, have
\* been aggregated.
SameDateLaterCreated ==
  /\ IsCaseQuery
  /\ \E j, k \in MatchedBy(events, logQuery[1]) :
       /\ events[j].customer.phone = events[k].customer.phone
       /\ events[j].customer.phone # None
       /\ events[j].date = events[k].date
       /\ events[j].created_at < events[k].created_at


\* The stages of one message that are no error entry, in the order of
\* writing.
RECURSIVE Stages(_)
Stages(audits) ==
  IF audits = <<>> THEN <<>>
  ELSE IF Head(audits) = "processing_error" THEN Stages(Tail(audits))
  ELSE <<Head(audits)>> \o Stages(Tail(audits))

\* The log after the step is the log before it followed by one document
\* for each event of the parse result, in their order.
EventsPersisted(parseResult) ==
  /\ Len(events') = Len(events) + Len(parseResult.events)
  /\ SubSeq(events', 1, Len(events)) = events
  /\ \A i \in 1..Len(parseResult.events) :
       /\ events'[Len(events) + i].customer.phone = parseResult.events[i].customer.phone
       /\ events'[Len(events) + i].date = parseResult.events[i].date

\* C38: the audit entries of one message come in the order received,
\* parsed, saved; the saved entry is written only when events were
\* produced and only with all of them in the event log; an ignored message
\* leaves received and parsed, no saved entry and no event.
C38_AuditStagesInOrder ==
  [][(logQuery' = None /\ last'.op = "handleMessage") =>
       LET stages == Stages(last'.audits) IN
       /\ \E n \in 0..3 :
            stages = SubSeq(<<"message_received", "message_parsed",
                              "lead_events_saved">>, 1, n)
       /\ Len(stages) = 3 =>
            \A parseResult \in ParseResults :
              \A picks \in LookupPicks(events, parseResult.events),
                 failAt \in HandleFailures(parseResult) :
              \A written \in (IF failAt = 4 THEN 0..Len(parseResult.events) ELSE {0}),
                 errAuditFails \in (IF failAt = 0 THEN {FALSE} ELSE BOOLEAN) :
                handleMessage(parseResult, picks, failAt, written, errAuditFails) =>
                  /\ ~parseResult.ignored
                  /\ parseResult.events # <<>>
                  /\ EventsPersisted(parseResult)
       /\ \A failAt \in HandleFailures(Ignored), errAuditFails \in BOOLEAN :
            handleMessage(Ignored, <<>>, failAt, 0, errAuditFails) =>
              /\ Len(stages) <= 2
              /\ events' = events
              /\ failAt = 0 => last'.audits = <<"message_received", "message_parsed">>
       /\ \A parseResult \in ParseResults \ {Ignored} :
            \A picks \in LookupPicks(events, parseResult.events) :
              handleMessage(parseResult, picks, 0, 0, FALSE) =>
                last'.audits = <<"message_received", "message_parsed", "lead_events_saved">>
    ]_vars

\* A message of two events has been handled without failure: the audit
\* trail is received, parsed, saved and the log ends with its two events.
C38_Witness ==
  /\ build = "log"
  /\ last.op = "handleMessage"
  /\ last.audits = <<"message_received", "message_parsed", "lead_events_saved">>
  /\ Len(events) >= 2
  /\ events[Len(events) - 1].customer.phone = U2.customer.phone
  /\ events[Len(events)].customer.name = N2.customer.name
  /\ events[Len(events)].customer.phone = None


\* C40: a handleMessage step that ends with a processing_error entry has
\* persisted none of the message's events: the event log is as it was
\* before the message.
C40_ErrorMeansNothingPersisted ==
  [][(/\ logQuery' = None
      /\ last'.op = "handleMessage"
      /\ last'.audits # <<>>
      /\ last'.audits[Len(last'.audits)] = "processing_error")
       => events' = events
    ]_vars

\* The new lead N1 was written to the event log, the lead_events_saved
\* audit write failed, and the audit trail of the message ends with
\* processing_error.
C40_Witness ==
  /\ build = "log"
  /\ last.op = "handleMessage"
  /\ last.audits = <<"message_received", "message_parsed", "processing_error">>
  /\ ~last.threw
  /\ Len(events) >= 1
  /\ events[Len(events)].status_text = N1.status_text
  /\ events[Len(events)].created_at = now
  /\ events[Len(events)].source.telegram_msg_id = "7"


\* Document e carries the header, the reason and the source of the pending
\* entry p.
BuiltFrom(e, p) ==
  /\ e.date = p.header.date
  /\ e.customer = [name |-> p.header.name, phone |-> p.header.phone]
  /\ e.page = p.header.page
  /\ e.follower = p.header.follower
  /\ e.reason_code = p.reasonCode
  /\ e.source.telegram_msg_id = p.sourceMessageId

\* The events of the log persisted from the pending entry p: built from it
\* and created after the header of p was accepted (at expiresAt - ttlMs),
\* hence while p was the user's pending entry.
CommittedFrom(p) ==
  {i \in 1..Len(events) :
     BuiltFrom(events[i], p) /\ events[i].created_at > p.expiresAt - ttlMs}

\* C39: each accepted header leads to at most one persisted event, also
\* when the audit write after the insert fails: no step persists an event
\* from a pending entry from which an event is already in the log.
C39_ExactlyOnceCommit ==
  [][\A u \in Users :
       (pendingEntries[u] # None /\ CommittedFrom(pendingEntries[u][1]) # {}) =>
         ~(/\ Len(events') = Len(events) + 1
           /\ BuiltFrom(events'[Len(events')], pendingEntries[u][1]))
    ]_vars

\* Two events of one pending entry are in the log and the entry still
\* waits for its note: both audit writes after the inserts failed.
C39_Witness ==
  /\ build = "entry"
  /\ pendingEntries[1] # None
  /\ pendingEntries[1][1].step = "awaiting_note"
  /\ Cardinality(CommittedFrom(pendingEntries[1][1])) = 2
  /\ last.op = "handlePending"
  /\ last.threw

====
